---- MODULE Spec2Model ----
(***************************************************************************)
(* State-machine model of the AuVidscripter desktop transcriber:           *)
(*   - the drag-and-drop intake and the file queue        (src/gui.py)     *)
(*   - the widget's run control and its signal handlers   (src/gui.py)     *)
(*   - TranscriptionThread.run and ModelManager           (src/business.py)*)
(*   - BenchmarkThread.run and the BenchmarkDialog                         *)
(*                                                                         *)
(* Specifications:                                                         *)
(*   Spec        the widget, its TranscriptionThreads and the event queue  *)
(*   SpecIntake  the intake alone, over a richer set of dropped paths      *)
(*   SpecGetModel  ModelManager.get_model called again and again by one    *)
(*               caller                                                    *)
(*   SpecCache   one batch beside the BenchmarkThreads of the benchmark    *)
(*               dialog, all calling ModelManager.get_model                *)
(*   SpecDisplay one batch and one benchmark with the repainting signals   *)
(*               delivered too                                             *)
(*   SpecProbe   get_audio_duration and FFProbeChecker.is_available called *)
(*               by the workers that are inside run()                      *)
(*   SpecFormat  format_timestamp, create_srt and create_txt applied to    *)
(*               inputs drawn from bounded sets                            *)
(*   SpecClose   the widget and its workers with the window being closed   *)
(*   SpecLive    Spec under the scheduling of the threads and of the event *)
(*               loop                                                      *)
(*   SpecManager the caller of SpecGetModel, who also clears the cache     *)
(*   SpecBench   the benchmark dialog and its BenchmarkThreads alone       *)
(***************************************************************************)
EXTENDS Naturals, Integers, Sequences, FiniteSets, TLC

VARIABLES
  os_sep,                \* os.sep of the platform: "/" (POSIX) or "\\" (Windows)
  whisper_installed,     \* business.py:13-16, whether `import whisper` succeeded
  fs,                    \* the files that exist on disk now
  file_queue,            \* HorizontalTranscriberWidget.file_queue
  file_list,             \* the QListWidget: one FileListItem per row
  processed_files,       \* HorizontalTranscriberWidget.processed_files
  transcription_thread,  \* the widget's worker reference: 0 is None, else an index of threads
  acceptDrops,           \* QWidget.acceptDrops of the widget
  controls_enabled,      \* model/engine/format combos, clear and benchmark buttons
  start_enabled,         \* start_button.isEnabled()
  stop_enabled,          \* stop_button.isEnabled()
  status_label,          \* status_label text (a tag per message)
  progress_bar,          \* per-file progress bar value
  overall_progress_bar,  \* overall progress bar value
  performance_label,     \* performance_label visible
  file_counter_label,    \* the numbers last written by update_file_counter
  timers,                \* pending QTimer.singleShot(100, on_all_processing_complete)
  threads,               \* every TranscriptionThread created so far
  evq,                   \* signals emitted by workers, queued for the UI thread
  MODEL_CACHE,           \* business.MODEL_CACHE: cache key -> model instance
  loads,                 \* per cache key, the model loads that completed
  calls,                 \* SpecGetModel: the get_model calls of a sequential caller, in order
  loading_key,           \* SpecGetModel: the key whose model that caller is loading
  dialog,                \* the BenchmarkDialog made last by show_benchmark_dialog
  benchmark_threads,     \* every BenchmarkThread created so far
  slots,                 \* the signals whose queued delivery to the widget is followed
  faults,                \* failures the environment has injected so far
  last_drop,             \* history: input and pre-state of the last dropEvent
  _is_available,         \* FFProbeChecker._is_available: "None", "True" or "False"
  probes,                \* SpecProbe: per worker, where it is in get_audio_duration
  probe_log,             \* history: the ffprobe processes started and the lengths returned
  reported,              \* history: is_available has returned False
  fmt_in,                \* SpecFormat: the arguments of the formatters
  fmt_out,               \* SpecFormat: what the formatters returned for them
  window,                \* the main window: "open", "asking" (the confirmation box is
                         \* up), "waiting" (closeEvent is in wait(3000)) or "closed"
  last_close             \* history: the last close request and what came of it

probe_vars   == <<_is_available, probes, probe_log, reported>>
\* the platform, the ffprobe checker, which only the steps of SpecProbe move,
\* the formatter calls, which only the steps of SpecFormat move, and the
\* window, which only the steps of SpecClose move
fmt_vars     == <<fmt_in, fmt_out>>
close_vars   == <<window, last_close>>
env_vars     == <<os_sep, whisper_installed, probe_vars, fmt_vars, close_vars>>
queue_vars   == <<file_queue, file_list, processed_files>>
button_vars  == <<acceptDrops, controls_enabled, start_enabled, stop_enabled>>
display_vars == <<status_label, progress_bar, overall_progress_bar, performance_label,
                  file_counter_label>>
worker_vars  == <<transcription_thread, threads, evq, timers>>
cache_vars   == <<MODEL_CACHE, loads>>
call_vars    == <<calls, loading_key>>
bench_vars   == <<dialog, benchmark_threads>>
vars == <<env_vars, fs, queue_vars, button_vars, display_vars, worker_vars,
          cache_vars, call_vars, bench_vars, slots, faults, last_drop>>

(***************************************************************************)
(* Bounds                                                                  *)
(***************************************************************************)
MaxDrops == 2      \* dropEvent calls in one behaviour
MaxDropLen == 2    \* paths carried by one drop (SpecIntake)
MaxRuns == 3       \* TranscriptionThread objects created in one behaviour
MaxVanish == 1     \* files that disappear while one dropEvent is running
MaxDeletes == 1    \* queued files deleted from disk in one behaviour (Spec)
MaxFaults == 1     \* failed loads, recognitions and writes in one behaviour
MaxCalls == 4      \* get_model calls of the sequential caller (SpecGetModel)
MaxDialogs == 2    \* BenchmarkDialog objects opened in one behaviour (SpecCache)
MaxCallers == 2      \* workers inside run() at once
MaxProbeCalls == 3   \* get_audio_duration calls in a behaviour
MaxSegments == 2     \* segments of one recognition result (SpecFormat)
MaxCloses == 2       \* close requests in a behaviour (SpecClose)
MaxBenchmarks == 2 \* BenchmarkThread objects created in one behaviour (SpecCache)
MaxClears == 1       \* clear_cache calls of the sequential caller (SpecManager)
MaxBenchFaults == 2  \* failures inflicted on the benchmarks of a behaviour (SpecBench)

(***************************************************************************)
(* Sequences                                                               *)
(***************************************************************************)
Range(s) == {s[i] : i \in 1..Len(s)}

InSeq(x, s) == \E i \in 1..Len(s) : s[i] = x

RECURSIVE FlattenSeq(_)
FlattenSeq(ss) == IF ss = <<>> THEN <<>> ELSE Head(ss) \o FlattenSeq(Tail(ss))

(***************************************************************************)
(* Path strings.  A path string is kept as its directory components, the   *)
(* separator written after each of them, and the stem and suffix of its    *)
(* last component: "m/s\a.mp3" is dirs <<"m","s">>, seps <<"/","\\">>,     *)
(* stem "a", ext ".mp3".  Two strings are equal iff all four fields are.   *)
(***************************************************************************)
MkPath(dirs, seps, stem, ext) ==
  [dirs |-> dirs, seps |-> seps, stem |-> stem, ext |-> ext]

\* QUrl.toLocalFile(): always written with forward slashes
toLocalFile(f) == MkPath(f.dirs, [i \in 1..Len(f.dirs) |-> "/"], f.stem, f.ext)

\* the file or directory a path string names (both separators are accepted)
Norm(p) == [dirs |-> p.dirs, stem |-> p.stem, ext |-> p.ext]

\* os.path.join(root, name): root, os.sep, name
os_path_join(root, name) ==
  MkPath(Append(root.dirs, root.stem), Append(root.seps, os_sep), name.stem, name.ext)

\* os.path.basename(path)
basename(p) == [stem |-> p.stem, ext |-> p.ext]

\* Path(path).suffix
suffix(p) == p.ext

\* Path(path).with_suffix(s), as the file it names
with_suffix(p, s) == [dirs |-> p.dirs, stem |-> p.stem, ext |-> s]

\* the suffix compared as it is written, without .lower()
lower_omitted(e) == e

\* str.lower() on the suffixes that occur
lower(e) ==
  CASE e = ".MP3" -> ".mp3"
    [] e = ".Wav" -> ".wav"
    [] e = ".PDF" -> ".pdf"
    [] OTHER -> e

valid_extensions ==
  <<".mp3", ".mp4", ".wav", ".m4a", ".flac", ".aac",
    ".ogg", ".opus", ".avi", ".mov", ".mkv">>

(***************************************************************************)
(* The disk: two directories, m and m/s, and the files that may be in them. *)
(***************************************************************************)
DirM  == [dirs |-> <<>>, stem |-> "m", ext |-> ""]
DirS  == [dirs |-> <<"m">>, stem |-> "s", ext |-> ""]
DiskDirs == <<DirM, DirS>>

FileA    == [dirs |-> <<"m">>, stem |-> "a", ext |-> ".mp3"]
FileAWav == [dirs |-> <<"m">>, stem |-> "a", ext |-> ".wav"]
FileDoc  == [dirs |-> <<"m">>, stem |-> "n", ext |-> ".pdf"]
FileSA   == [dirs |-> <<"m", "s">>, stem |-> "a", ext |-> ".mp3"]
FileSB   == [dirs |-> <<"m", "s">>, stem |-> "b", ext |-> ".MP3"]

\* every file, in the order a directory listing returns them
DiskListing == <<FileA, FileAWav, FileDoc, FileSA, FileSB>>
DiskFiles == Range(DiskListing)

isfile(p, disk) == Norm(p) \in disk
isdir(p) == InSeq(Norm(p), DiskDirs)
exists(p, disk) == isfile(p, disk) \/ isdir(p)

\* os.walk(directory): (root, files) top-down, roots built with os.path.join
RECURSIVE os_walk(_, _)
os_walk(directory, disk) ==
  LET here == Append(directory.dirs, directory.stem)
      files == SelectSeq(DiskListing, LAMBDA f : f.dirs = here /\ f \in disk)
      subs == SelectSeq(DiskDirs, LAMBDA d : d.dirs = here)
  IN  <<[root |-> directory, files |-> files]>>
      \o FlattenSeq([i \in 1..Len(subs) |-> os_walk(os_path_join(directory, subs[i]), disk)])

(***************************************************************************)
(* Intake: dropEvent, add_file_to_queue, scan_directory_for_files          *)
(***************************************************************************)
\* FileListItem.__init__
FileListItem(file_path) == [file_path |-> file_path, status |-> "pending"]

\* add_file_to_queue without lines 48-49: the path is queued and no item is
\* put on the list
add_file_to_queue_unlisted(st, file_path, disk) ==
  LET file_ext == lower(suffix(file_path))
  IN  IF InSeq(file_ext, valid_extensions)
      THEN IF ~InSeq(file_path, st.queue)
           THEN IF ~exists(file_path, disk)
                THEN [st EXCEPT !.ret = FALSE]
                ELSE [queue |-> Append(st.queue, file_path),
                      list |-> st.list,
                      ret |-> TRUE]
           ELSE [st EXCEPT !.ret = FALSE]
      ELSE [st EXCEPT !.ret = FALSE]

\* add_file_to_queue: st carries file_queue and file_list, ret is the return value
add_file_to_queue(st, file_path, disk) ==
  LET file_ext == lower(suffix(file_path))
  IN  IF InSeq(file_ext, valid_extensions)
      THEN IF ~InSeq(file_path, st.queue)
           THEN IF ~exists(file_path, disk)
                THEN [st EXCEPT !.ret = FALSE]
                ELSE [queue |-> Append(st.queue, file_path),
                      list |-> Append(st.list, FileListItem(file_path)),
                      ret |-> TRUE]
           ELSE [st EXCEPT !.ret = FALSE]
      ELSE [st EXCEPT !.ret = FALSE]

\* the body of the two loops of scan_directory_for_files, for one file_path;
\* st.found is found_files
scan_one(st, file_path, disk) ==
  LET file_ext == lower(suffix(file_path))
  IN  IF InSeq(file_ext, valid_extensions) /\ ~InSeq(file_path, st.queue)
         /\ exists(file_path, disk)
      THEN [queue |-> Append(st.queue, file_path),
            list |-> Append(st.list, FileListItem(file_path)),
            found |-> st.found + 1]
      ELSE st

RECURSIVE scan_loop(_, _, _)
scan_loop(st, file_paths, disk) ==
  IF file_paths = <<>> THEN st
  ELSE scan_loop(scan_one(st, Head(file_paths), disk), Tail(file_paths), disk)

\* the file_path values scan_directory_for_files visits, in order: the walk
\* lists the directory as it is in disk0
walked_paths(directory, disk0) ==
  LET walk == os_walk(directory, disk0)
  IN  FlattenSeq([i \in 1..Len(walk) |->
        [j \in 1..Len(walk[i].files) |-> os_path_join(walk[i].root, walk[i].files[j])]])

\* scan_directory_for_files: the files are listed in disk0 and tested with
\* os.path.exists in disk1; ret is found_files
scan_directory_for_files(st, directory, disk0, disk1) ==
  LET r == scan_loop([queue |-> st.queue, list |-> st.list, found |-> 0],
                     walked_paths(directory, disk0), disk1)
  IN  [queue |-> r.queue, list |-> r.list, ret |-> r.found]

\* the loop of dropEvent over the dropped paths; st.added_count as in the code
RECURSIVE drop_loop(_, _, _, _)
drop_loop(st, paths, disk0, disk1) ==
  IF paths = <<>> THEN st
  ELSE LET path == Head(paths)
           cur == [queue |-> st.queue, list |-> st.list, ret |-> FALSE]
           next ==
             IF isfile(path, disk0)
             THEN LET r == add_file_to_queue(cur, path, disk1)
                  IN  [queue |-> r.queue, list |-> r.list,
                       added_count |-> st.added_count + (IF r.ret THEN 1 ELSE 0)]
             ELSE IF isdir(path)
             THEN LET r == scan_directory_for_files(cur, path, disk0, disk1)
                  IN  [queue |-> r.queue, list |-> r.list,
                       added_count |-> st.added_count + r.ret]
             ELSE st
       IN  drop_loop(next, Tail(paths), disk0, disk1)

\* count_errors
count_errors(list) == Cardinality({i \in 1..Len(list) : list[i].status = "error"})

\* the numbers update_file_counter writes to file_counter_label
update_file_counter(queue, list, processed) ==
  [total |-> Len(queue), processed |-> Len(processed), errors |-> count_errors(list)]

\* dropEvent: `paths` are the dropped local files; the files of `vanish`
\* disappear after the handler has classified the paths and listed the
\* directories and before it tests os.path.exists
dropEvent(paths, vanish) ==
  /\ acceptDrops
  /\ last_drop.n < MaxDrops
  /\ LET disk1 == fs \ vanish
         st == drop_loop([queue |-> file_queue, list |-> file_list, added_count |-> 0],
                         paths, fs, disk1)
     IN  /\ file_queue' = st.queue
         /\ file_list' = st.list
         /\ start_enabled' = (IF st.added_count > 0 THEN TRUE ELSE start_enabled)
         /\ file_counter_label' = update_file_counter(st.queue, st.list, processed_files)
         /\ fs' = disk1
         /\ last_drop' = [n |-> last_drop.n + 1, fresh |-> TRUE, paths |-> paths,
                          queue |-> file_queue, fs0 |-> fs, fs1 |-> disk1]
  /\ UNCHANGED <<env_vars, call_vars, processed_files, acceptDrops, controls_enabled, stop_enabled,
                 status_label, progress_bar, overall_progress_bar, performance_label,
                 worker_vars, cache_vars, bench_vars>>

\* clear_file_list without line 87: the processed-files record is kept
clear_file_list_keeps_record ==
  /\ controls_enabled
  /\ file_queue' = <<>>
  /\ file_list' = <<>>
  /\ processed_files' = processed_files
  /\ file_counter_label' = update_file_counter(<<>>, <<>>, processed_files)
  /\ start_enabled' = FALSE
  /\ progress_bar' = 0
  /\ overall_progress_bar' = 0
  /\ status_label' = ""
  /\ performance_label' = FALSE
  /\ last_drop' = [n |-> last_drop.n, fresh |-> FALSE, paths |-> <<>>, queue |-> <<>>,
                   fs0 |-> {}, fs1 |-> {}]
  /\ UNCHANGED <<env_vars, call_vars, fs, acceptDrops, controls_enabled, stop_enabled,
                 worker_vars, cache_vars, bench_vars>>

\* clear_file_list, reached through clear_button
clear_file_list ==
  /\ controls_enabled
  /\ file_queue' = <<>>
  /\ file_list' = <<>>
  /\ processed_files' = <<>>
  /\ file_counter_label' = update_file_counter(<<>>, <<>>, <<>>)
  /\ start_enabled' = FALSE
  /\ progress_bar' = 0
  /\ overall_progress_bar' = 0
  /\ status_label' = ""
  /\ performance_label' = FALSE
  /\ last_drop' = [n |-> last_drop.n, fresh |-> FALSE, paths |-> <<>>, queue |-> <<>>,
                   fs0 |-> {}, fs1 |-> {}]
  /\ UNCHANGED <<env_vars, call_vars, fs, acceptDrops, controls_enabled, stop_enabled,
                 worker_vars, cache_vars, bench_vars>>

\* the environment deletes (or moves away) a file
DeleteFile(f) ==
  /\ f \in fs
  /\ fs' = fs \ {f}
  /\ UNCHANGED <<env_vars, call_vars, queue_vars, button_vars, display_vars, worker_vars,
                 cache_vars, bench_vars, last_drop>>

(***************************************************************************)
(* ModelManager                                                            *)
(***************************************************************************)
Backends == {"whisper", "faster-whisper"}
ModelSizes == {"tiny", "base"}

\* cache_key = f"{backend}_{model_size}"
cache_key(model_size, backend) == <<backend, model_size>>
Keys == {cache_key(sz, b) : sz \in ModelSizes, b \in Backends}

\* the n-th model object built for a key; NoModel stands for "no entry"
Instance(key, n) == [key |-> key, n |-> n]
NoModel == [key |-> <<"", "">>, n |-> 0]

\* get_model, lines 31-35, where the key is never looked up
get_model_cached_never(cache, key) == [hit |-> FALSE, model |-> NoModel]

\* get_model, lines 31-35: `if cache_key in MODEL_CACHE: return MODEL_CACHE[cache_key]`
get_model_cached(cache, key) ==
  IF cache[key] # NoModel THEN [hit |-> TRUE, model |-> cache[key]]
  ELSE [hit |-> FALSE, model |-> NoModel]

\* get_model, lines 60-63: the reference backend is not importable
get_model_not_installed(backend) == backend = "whisper" /\ ~whisper_installed

\* get_model, lines 52-58 and 64: the model object a completed load returns
get_model_load(loaded, key) == Instance(key, loaded[key] + 1)

\* get_model, line 66: MODEL_CACHE[cache_key] = model
get_model_store(cache, key, model) == [cache EXCEPT ![key] = model]

\* a finished get_model call: the key asked for, whether the cache had it,
\* and the object returned (NoModel when the call raised)
Call(key, hit, model) == [key |-> key, hit |-> hit, model |-> model]
NoKey == <<"", "">>

\* get_model, lines 28-63, called when the caller's previous call has
\* returned: up to the return from the cache, the raise for a backend that
\* is not installed, or the entry into the model constructor
get_model_begin(model_size, backend) ==
  /\ loading_key = NoKey
  /\ Len(calls) < MaxCalls
  /\ LET key == cache_key(model_size, backend)
         got == get_model_cached(MODEL_CACHE, key)
     IN  IF got.hit
         THEN calls' = Append(calls, Call(key, TRUE, got.model)) /\ UNCHANGED loading_key
         ELSE IF get_model_not_installed(backend)
         THEN calls' = Append(calls, Call(key, FALSE, NoModel)) /\ UNCHANGED loading_key
         ELSE loading_key' = key /\ UNCHANGED calls
  /\ UNCHANGED <<env_vars, fs, queue_vars, button_vars, display_vars, worker_vars,
                 cache_vars, bench_vars, last_drop>>

\* get_model, lines 52-67: the model constructor returns (ok) or raises
get_model_return(ok) ==
  /\ loading_key # NoKey
  /\ LET model == get_model_load(loads, loading_key)
     IN  IF ok
         THEN /\ MODEL_CACHE' = get_model_store(MODEL_CACHE, loading_key, model)
              /\ loads' = [loads EXCEPT ![loading_key] = @ + 1]
              /\ calls' = Append(calls, Call(loading_key, FALSE, model))
         ELSE /\ UNCHANGED cache_vars
              /\ calls' = Append(calls, Call(loading_key, FALSE, NoModel))
  /\ loading_key' = NoKey
  /\ UNCHANGED <<env_vars, fs, queue_vars, button_vars, display_vars, worker_vars,
                 bench_vars, last_drop>>

(***************************************************************************)
(* Signals of TranscriptionThread.  Every event has the same fields so     *)
(* that any two can be compared; w is the emitting thread (the handlers    *)
(* never read it).                                                         *)
(***************************************************************************)
EmptyPath == MkPath(<<>>, <<>>, "", "")
NoFile == [dirs |-> <<>>, stem |-> "", ext |-> ""]
NoBase == [stem |-> "", ext |-> ""]

Signal(sig, w, path, out, base, n, m, tag) ==
  [sig |-> sig, w |-> w, to |-> 0, path |-> path, out |-> out, base |-> base,
   n |-> n, m |-> m, tag |-> tag]

SigStatus(w, tag)        == Signal("status", w, EmptyPath, NoFile, NoBase, 0, 0, tag)
SigProgress(w, v)        == Signal("progress", w, EmptyPath, NoFile, NoBase, v, 0, "")
SigFinished(w, fp, out)  == Signal("finished", w, fp, out, NoBase, 0, 0, "")
SigError(w, fp, tag)     == Signal("error", w, fp, NoFile, NoBase, 0, 0, tag)
SigCurrentFile(w, base)  == Signal("current_file", w, EmptyPath, NoFile, base, 0, 0, "")
SigOverall(w, cur, tot)  == Signal("overall_progress", w, EmptyPath, NoFile, NoBase, cur, tot, "")
SigBenchmark(w, eng, v)  == Signal("benchmark_result", w, EmptyPath, NoFile, NoBase, v, 0, eng)
SigFileNotFound(w, fp)   == Signal("file_not_found", w, fp, NoFile, NoBase, 0, 0, "")

(***************************************************************************)
(* TranscriptionThread                                                     *)
(***************************************************************************)
SomeDuration == 120      \* an audio length in seconds, when one is known
SomeProcessingTime == 30 \* seconds spent in one recognition call

\* TranscriptionThread.__init__; pc is where run() is:
\*   "started"       start() was called, run() has not begun
\*   "loading"       inside the model load of ModelManager.get_model
\*   "transcribing"  inside lines 171-241 for file_paths[index]
\*   "done"          run() has returned
\* emitted, written and stop_at are history: the signals emitted, the output
\* files written, and the file in flight when stop() was first called
TranscriptionThread(file_paths, model_size, output_format, backend) ==
  [file_paths |-> file_paths, model_size |-> model_size,
   output_format |-> output_format, backend |-> backend,
   should_stop |-> FALSE, total_audio_duration |-> 0, total_processing_time |-> 0,
   pc |-> "started", index |-> 0, model |-> NoModel,
   emitted |-> <<>>, written |-> <<>>, stop_at |-> 0, stopped |-> FALSE]

isRunning(t) == t.pc # "done"

\* what is left of a thread object once run() has returned and the widget no
\* longer refers to it
Collected == [TranscriptionThread(<<>>, "", "", "") EXCEPT !.pc = "done"]

\* lines 247-250 without the test of line 248
run_after_loop_unguarded(t, w, evs) ==
  [t |-> [t EXCEPT !.pc = "done"],
   evs |-> Append(evs, SigBenchmark(w, t.backend,
             IF t.total_audio_duration > 0
             THEN (t.total_processing_time * 60) \div t.total_audio_duration
             ELSE 0))]

\* lines 248-250, then run() returns
run_after_loop(t, w, evs) ==
  [t |-> [t EXCEPT !.pc = "done"],
   evs |-> IF t.total_audio_duration > 0 /\ t.total_processing_time > 0
           THEN Append(evs, SigBenchmark(w, t.backend,
                  (t.total_processing_time * 60) \div t.total_audio_duration))
           ELSE evs]

\* lines 156-176 with the stop check left out
RECURSIVE run_loop_unchecked(_, _, _, _, _)
run_loop_unchecked(t, w, idx, evs, disk) ==
  IF idx > Len(t.file_paths) THEN run_after_loop(t, w, evs)
  ELSE LET file_path == t.file_paths[idx]
       IN  IF ~exists(file_path, disk)
           THEN run_loop_unchecked(t, w, idx + 1,
                  evs \o <<SigFileNotFound(w, file_path),
                           SigError(w, file_path, "deleted")>>, disk)
           ELSE [t |-> [t EXCEPT !.pc = "transcribing", !.index = idx],
                 evs |-> evs \o <<SigCurrentFile(w, basename(file_path)),
                                  SigOverall(w, idx, Len(t.file_paths)),
                                  SigStatus(w, "transcribing"),
                                  SigProgress(w, 30)>>]

\* lines 156-176 with `break` in the place of `continue` at line 166
RECURSIVE run_loop_missing_breaks(_, _, _, _, _)
run_loop_missing_breaks(t, w, idx, evs, disk) ==
  IF idx > Len(t.file_paths) THEN run_after_loop(t, w, evs)
  ELSE IF t.should_stop THEN run_after_loop(t, w, evs)
  ELSE LET file_path == t.file_paths[idx]
       IN  IF ~exists(file_path, disk)
           THEN run_after_loop(t, w,
                  evs \o <<SigFileNotFound(w, file_path),
                           SigError(w, file_path, "deleted")>>)
           ELSE [t |-> [t EXCEPT !.pc = "transcribing", !.index = idx],
                 evs |-> evs \o <<SigCurrentFile(w, basename(file_path)),
                                  SigOverall(w, idx, Len(t.file_paths)),
                                  SigStatus(w, "transcribing"),
                                  SigProgress(w, 30)>>]

\* lines 156-176 walking the list from its end: `reversed(self.file_paths)`
RECURSIVE run_loop_reversed(_, _, _, _, _)
run_loop_reversed(t, w, idx, evs, disk) ==
  IF idx > Len(t.file_paths) THEN run_after_loop(t, w, evs)
  ELSE IF t.should_stop THEN run_after_loop(t, w, evs)
  ELSE LET file_path == t.file_paths[Len(t.file_paths) + 1 - idx]
       IN  IF ~exists(file_path, disk)
           THEN run_loop_reversed(t, w, idx + 1,
                  evs \o <<SigFileNotFound(w, file_path),
                           SigError(w, file_path, "deleted")>>, disk)
           ELSE [t |-> [t EXCEPT !.pc = "transcribing", !.index = idx],
                 evs |-> evs \o <<SigCurrentFile(w, basename(file_path)),
                                  SigOverall(w, idx, Len(t.file_paths)),
                                  SigStatus(w, "transcribing"),
                                  SigProgress(w, 30)>>]

\* lines 156-176 with lines 175 and 176 exchanged: progress 30 ahead of the
\* status
RECURSIVE run_loop_swapped(_, _, _, _, _)
run_loop_swapped(t, w, idx, evs, disk) ==
  IF idx > Len(t.file_paths) THEN run_after_loop(t, w, evs)
  ELSE IF t.should_stop THEN run_after_loop(t, w, evs)
  ELSE LET file_path == t.file_paths[idx]
       IN  IF ~exists(file_path, disk)
           THEN run_loop_swapped(t, w, idx + 1,
                  evs \o <<SigFileNotFound(w, file_path),
                           SigError(w, file_path, "deleted")>>, disk)
           ELSE [t |-> [t EXCEPT !.pc = "transcribing", !.index = idx],
                 evs |-> evs \o <<SigCurrentFile(w, basename(file_path)),
                                  SigOverall(w, idx, Len(t.file_paths)),
                                  SigProgress(w, 30),
                                  SigStatus(w, "transcribing")>>]

\* lines 156-176: the head of the per-file loop from file idx (1-based) on,
\* up to the recognition call of the next file that exists, or to the end
RECURSIVE run_loop(_, _, _, _, _)
run_loop(t, w, idx, evs, disk) ==
  IF idx > Len(t.file_paths) THEN run_after_loop(t, w, evs)
  ELSE IF t.should_stop THEN run_after_loop(t, w, evs)
  ELSE LET file_path == t.file_paths[idx]
       IN  IF ~exists(file_path, disk)
           THEN run_loop(t, w, idx + 1,
                  evs \o <<SigFileNotFound(w, file_path),
                           SigError(w, file_path, "deleted")>>, disk)
           ELSE [t |-> [t EXCEPT !.pc = "transcribing", !.index = idx],
                 evs |-> evs \o <<SigCurrentFile(w, basename(file_path)),
                                  SigOverall(w, idx, Len(t.file_paths)),
                                  SigStatus(w, "transcribing"),
                                  SigProgress(w, 30)>>]

\* lines 146-149 with the return left out: the loop is entered without a model
run_load_failed_no_return(t, w, evs, disk) ==
  run_loop(t, w, 1, Append(evs, SigError(w, EmptyPath, "load")), disk)

\* lines 146-149: get_model raised; one error with an empty file name, return
run_load_failed(t, w, evs, disk) ==
  [t |-> [t EXCEPT !.pc = "done"], evs |-> Append(evs, SigError(w, EmptyPath, "load"))]

\* a step of thread w: its record becomes r.t and it has emitted r.evs, which
\* are posted to the UI thread in that order
Emit(w, r) ==
  /\ threads' = [threads EXCEPT ![w] = [r.t EXCEPT !.emitted = @ \o r.evs]]
  /\ evq' = evq \o SelectSeq(r.evs, LAMBDA e : e.sig \in slots)

\* run(), lines 131-145: up to the model load, or past it on a cache hit
run_begin(w) ==
  /\ w \in 1..Len(threads)
  /\ threads[w].pc = "started"
  /\ LET t == threads[w]
         key == cache_key(t.model_size, t.backend)
         got == get_model_cached(MODEL_CACHE, key)
         loading == <<SigStatus(w, "loading")>>
     IN  IF got.hit
         THEN Emit(w, run_loop([t EXCEPT !.model = got.model], w, 1,
                               Append(loading, SigStatus(w, "loaded")), fs))
         ELSE IF get_model_not_installed(t.backend)
         THEN Emit(w, run_load_failed(t, w, loading, fs))
         ELSE Emit(w, [t |-> [t EXCEPT !.pc = "loading"], evs |-> loading])
  /\ UNCHANGED <<env_vars, call_vars, fs, queue_vars, button_vars, display_vars,
                 transcription_thread, timers, cache_vars, bench_vars, last_drop>>

\* run(), lines 145-152: the model load returns (ok) or raises
run_model_loaded(w, ok) ==
  /\ w \in 1..Len(threads)
  /\ threads[w].pc = "loading"
  /\ LET t == threads[w]
         key == cache_key(t.model_size, t.backend)
         model == get_model_load(loads, key)
     IN  IF ok
         THEN /\ MODEL_CACHE' = get_model_store(MODEL_CACHE, key, model)
              /\ loads' = [loads EXCEPT ![key] = @ + 1]
              /\ Emit(w, run_loop([t EXCEPT !.model = model], w, 1,
                                  <<SigStatus(w, "loaded")>>, fs))
         ELSE /\ UNCHANGED cache_vars
              /\ Emit(w, run_load_failed(t, w, <<>>, fs))
  /\ UNCHANGED <<env_vars, call_vars, fs, queue_vars, button_vars, display_vars,
                 transcription_thread, timers, bench_vars, last_drop>>

\* lines 223-229: the output file of file_path
output_path(file_path, output_format) ==
  IF output_format = "txt" THEN with_suffix(file_path, ".txt")
  ELSE with_suffix(file_path, ".srt")

\* lines 173-208: the audio length ffprobe or the backend reports for a file,
\* 0 when neither reports one (here: for the .wav file)
audio_duration(file_path) == IF file_path.ext = ".wav" THEN 0 ELSE SomeDuration

\* run(), lines 171-245 without the `continue` of line 238: a failed write
\* falls through to lines 240-241
run_file_done_no_continue(w, outcome) ==
  /\ w \in 1..Len(threads)
  /\ threads[w].pc = "transcribing"
  /\ LET t == threads[w]
         file_path == t.file_paths[t.index]
         out == output_path(file_path, t.output_format)
     IN  CASE outcome = "raise" ->
                Emit(w, run_loop(t, w, t.index + 1,
                                 <<SigError(w, file_path, "raised")>>, fs))
           [] outcome = "write_failed" ->
                Emit(w, run_loop(t, w, t.index + 1,
                                 <<SigProgress(w, 80), SigError(w, file_path, "write"),
                                   SigProgress(w, 100), SigFinished(w, file_path, out)>>, fs))
           [] outcome = "ok" ->
                Emit(w, run_loop([t EXCEPT !.written = Append(@, out)], w, t.index + 1,
                                 <<SigProgress(w, 80), SigProgress(w, 100),
                                   SigFinished(w, file_path, out)>>, fs))
  /\ UNCHANGED <<env_vars, call_vars, fs, queue_vars, button_vars, display_vars,
                 transcription_thread, timers, cache_vars, bench_vars, last_drop>>

\* run(), lines 171-245 for the file in flight, then the head of the loop for
\* the next one.  outcome: "raise" (the recognition call raises),
\* "write_failed" (open/write raises IOError), "ok"
run_file_done(w, outcome) ==
  /\ w \in 1..Len(threads)
  /\ threads[w].pc = "transcribing"
  /\ LET t == threads[w]
         file_path == t.file_paths[t.index]
         out == output_path(file_path, t.output_format)
         duration == audio_duration(file_path)
         timed == IF duration > 0
                  THEN [t EXCEPT !.total_audio_duration = @ + duration,
                                 !.total_processing_time = @ + SomeProcessingTime]
                  ELSE t
     IN  CASE outcome = "raise" ->
                Emit(w, run_loop(t, w, t.index + 1,
                                 <<SigError(w, file_path, "raised")>>, fs))
           [] outcome = "write_failed" ->
                Emit(w, run_loop(timed, w, t.index + 1,
                                 <<SigProgress(w, 80), SigError(w, file_path, "write")>>, fs))
           [] outcome = "ok" ->
                Emit(w, run_loop([timed EXCEPT !.written = Append(@, out)], w, t.index + 1,
                                 <<SigProgress(w, 80), SigProgress(w, 100),
                                   SigFinished(w, file_path, out)>>, fs))
  /\ UNCHANGED <<env_vars, call_vars, fs, queue_vars, button_vars, display_vars,
                 transcription_thread, timers, cache_vars, bench_vars, last_drop>>

(***************************************************************************)
(* The widget: run control                                                 *)
(***************************************************************************)
\* start_processing, reached through start_button; the three arguments are
\* the current texts of model_combo, format_combo and engine_combo
start_processing(model_size, output_format, backend) ==
  /\ start_enabled
  /\ file_queue # <<>>
  /\ Len(threads) < MaxRuns
  /\ acceptDrops' = FALSE
  /\ controls_enabled' = FALSE
  /\ start_enabled' = FALSE
  /\ stop_enabled' = TRUE
  /\ threads' = Append(threads,
                  TranscriptionThread(file_queue, model_size, output_format, backend))
  /\ transcription_thread' = Len(threads) + 1
  /\ UNCHANGED <<env_vars, call_vars, fs, queue_vars, display_vars, evq, timers,
                 cache_vars, bench_vars, last_drop>>

\* TranscriptionThread.stop
stop(t) ==
  [t EXCEPT !.should_stop = TRUE,
            !.stopped = TRUE,
            !.stop_at = IF ~t.stopped /\ t.pc = "transcribing" THEN t.index ELSE @]

\* stop_processing, reached through stop_button
stop_processing ==
  /\ stop_enabled
  /\ IF transcription_thread # 0 /\ isRunning(threads[transcription_thread])
     THEN /\ threads' = [threads EXCEPT ![transcription_thread] = stop(@)]
          /\ status_label' = "stopping"
     ELSE UNCHANGED <<threads, status_label>>
  /\ UNCHANGED <<env_vars, call_vars, fs, queue_vars, button_vars, progress_bar,
                 overall_progress_bar, performance_label, file_counter_label,
                 transcription_thread, evq, timers, cache_vars, bench_vars, last_drop>>

\* the loops `for i in range(self.file_list.count()): ... break`: the first
\* row that matches gets the status
set_first(list, hits, status) ==
  IF hits = {} THEN list
  ELSE LET first == CHOOSE i \in hits : \A j \in hits : i <= j
       IN  [list EXCEPT ![first].status = status]

\* `if item.file_path == file_path`
rows_of_path(list, file_path) == {i \in 1..Len(list) : list[i].file_path = file_path}

\* `if os.path.basename(item.file_path) == filename`
rows_of_name(list, filename) ==
  {i \in 1..Len(list) : basename(list[i].file_path) = filename}

\* check_if_all_processed: true when the completion timer is started
check_if_all_processed(list, queue, processed, thread) ==
  Len(processed) + count_errors(list) = Len(queue) /\ thread # 0

\* setEnabled_controls(enabled): the value given to start_button
start_button_value(enabled, queue) == enabled /\ queue # <<>>

\* the worker signal at the head of the UI thread's event queue
Pending(sig) == evq # <<>> /\ Head(evq).sig = sig

\* the slot connected to progress
on_progress ==
  /\ Pending("progress")
  /\ progress_bar' = Head(evq).n
  /\ evq' = Tail(evq)
  /\ UNCHANGED <<env_vars, call_vars, fs, queue_vars, button_vars, status_label,
                 overall_progress_bar, performance_label, file_counter_label,
                 transcription_thread, threads, timers, cache_vars, bench_vars, last_drop>>

update_status ==
  /\ Pending("status")
  /\ status_label' = Head(evq).tag
  /\ evq' = Tail(evq)
  /\ UNCHANGED <<env_vars, call_vars, fs, queue_vars, button_vars, progress_bar,
                 overall_progress_bar, performance_label, file_counter_label,
                 transcription_thread, threads, timers, cache_vars, bench_vars, last_drop>>

update_current_file ==
  /\ Pending("current_file")
  /\ LET filename == Head(evq).base
     IN  file_list' = set_first(file_list, rows_of_name(file_list, filename), "processing")
  /\ evq' = Tail(evq)
  /\ UNCHANGED <<env_vars, call_vars, fs, file_queue, processed_files, button_vars, display_vars,
                 transcription_thread, threads, timers, cache_vars, bench_vars, last_drop>>

update_overall_progress ==
  /\ Pending("overall_progress")
  /\ LET current == Head(evq).n
         total == Head(evq).m
     IN  overall_progress_bar' =
           (IF total > 0 THEN (current * 100) \div total ELSE overall_progress_bar)
  /\ evq' = Tail(evq)
  /\ UNCHANGED <<env_vars, call_vars, fs, queue_vars, button_vars, status_label, progress_bar,
                 performance_label, file_counter_label,
                 transcription_thread, threads, timers, cache_vars, bench_vars, last_drop>>

on_benchmark_result ==
  /\ Pending("benchmark_result")
  /\ performance_label' = TRUE
  /\ evq' = Tail(evq)
  /\ UNCHANGED <<env_vars, call_vars, fs, queue_vars, button_vars, status_label, progress_bar,
                 overall_progress_bar, file_counter_label,
                 transcription_thread, threads, timers, cache_vars, bench_vars, last_drop>>

on_file_not_found ==
  /\ Pending("file_not_found")
  /\ LET file_path == Head(evq).path
     IN  file_list' = set_first(file_list, rows_of_path(file_list, file_path), "not_found")
  /\ evq' = Tail(evq)
  /\ UNCHANGED <<env_vars, call_vars, fs, file_queue, processed_files, button_vars, display_vars,
                 transcription_thread, threads, timers, cache_vars, bench_vars, last_drop>>

on_file_finished ==
  /\ Pending("finished")
  /\ LET file_path == Head(evq).path
         processed == Append(processed_files, Head(evq).out)
         list == set_first(file_list, rows_of_path(file_list, file_path), "completed")
     IN  /\ processed_files' = processed
         /\ file_list' = list
         /\ file_counter_label' = update_file_counter(file_queue, list, processed)
         /\ timers' = IF check_if_all_processed(list, file_queue, processed,
                                                transcription_thread)
                      THEN timers + 1 ELSE timers
  /\ evq' = Tail(evq)
  /\ UNCHANGED <<env_vars, call_vars, fs, file_queue, button_vars, status_label, progress_bar,
                 overall_progress_bar, performance_label,
                 transcription_thread, threads, cache_vars, bench_vars, last_drop>>

on_file_error ==
  /\ Pending("error")
  /\ LET file_path == Head(evq).path
         list == IF file_path # EmptyPath
                 THEN set_first(file_list, rows_of_path(file_list, file_path), "error")
                 ELSE file_list
     IN  /\ file_list' = list
         /\ file_counter_label' = update_file_counter(file_queue, list, processed_files)
         /\ timers' = IF check_if_all_processed(list, file_queue, processed_files,
                                                transcription_thread)
                      THEN timers + 1 ELSE timers
  /\ evq' = Tail(evq)
  /\ UNCHANGED <<env_vars, call_vars, fs, file_queue, processed_files, button_vars, status_label,
                 progress_bar, overall_progress_bar, performance_label,
                 transcription_thread, threads, cache_vars, bench_vars, last_drop>>

\* on_all_processing_complete, run by a QTimer.singleShot, with
\* cleanup_processing and reset_ui_state.  wait(5000) returns after five
\* seconds whether or not the thread has finished.
on_all_processing_complete ==
  /\ timers > 0
  /\ timers' = timers - 1
  /\ status_label' = "complete"
  /\ transcription_thread' = 0
  /\ threads' = IF transcription_thread # 0 /\ ~isRunning(threads[transcription_thread])
                THEN [threads EXCEPT ![transcription_thread] = Collected]
                ELSE threads
  /\ acceptDrops' = TRUE
  /\ controls_enabled' = TRUE
  /\ start_enabled' = start_button_value(TRUE, file_queue)
  /\ stop_enabled' = FALSE
  /\ UNCHANGED <<env_vars, call_vars, fs, queue_vars, progress_bar, overall_progress_bar,
                 performance_label, file_counter_label, evq,
                 cache_vars, bench_vars, last_drop>>

(***************************************************************************)
(* BenchmarkThread and BenchmarkDialog                                     *)
(***************************************************************************)
\* the signals of a BenchmarkThread; `to` is the dialog whose slots are
\* connected to them in run_benchmark.  A result carries, per engine, 1 for a
\* measured speed, 0 for a failure and 2 for "not installed"
SigBenchStatus(d, tag)  == [Signal("bench_status", 0, EmptyPath, NoFile, NoBase, 0, 0, tag)
                              EXCEPT !.to = d]
SigBenchProgress(d, v)  == [Signal("bench_progress", 0, EmptyPath, NoFile, NoBase, v, 0, "")
                              EXCEPT !.to = d]
SigResult(d, fw, ow)    == [Signal("result", 0, EmptyPath, NoFile, NoBase, fw, ow, "")
                              EXCEPT !.to = d]
SigBenchError(d)        == [Signal("bench_error", 0, EmptyPath, NoFile, NoBase, 0, 0, "")
                              EXCEPT !.to = d]

\* BenchmarkThread.__init__; pc is where run() is, backend the engine under
\* test, faster_whisper its outcome for the first engine (0 a failure line,
\* 1 the four lines of a measurement, 2 the line "not installed"); emitted is
\* the history of what run() has emitted, failed the history of the engines
\* whose branch has raised
BenchmarkThread(test_file, model_size, d) ==
  [test_file |-> test_file, model_size |-> model_size, dialog |-> d,
   pc |-> "started", backend |-> "faster-whisper", model |-> NoModel,
   faster_whisper |-> 0, emitted |-> <<>>, failed |-> {}]

\* lines 358-365 and 396-408: an engine's test up to the model load, or past
\* it on a cache hit
bench_engine(t, backend, evs) ==
  LET got == get_model_cached(MODEL_CACHE, cache_key(t.model_size, backend))
      begun == evs \o <<SigBenchStatus(t.dialog, "testing"),
                        SigBenchProgress(t.dialog, IF backend = "whisper" THEN 75 ELSE 25)>>
  IN  IF got.hit
      THEN [t |-> [t EXCEPT !.backend = backend, !.model = got.model,
                            !.pc = "transcribing"],
            evs |-> Append(begun, SigBenchStatus(t.dialog, "warmup"))]
      ELSE [t |-> [t EXCEPT !.backend = backend, !.pc = "loading"], evs |-> begun]

\* a run() without the handlers of lines 397 and 432: the outer handler of
\* line 457 catches what an engine raises
bench_engine_done_uncaught(t, result, evs) ==
  IF result = 0
  THEN [t |-> [t EXCEPT !.pc = "done"], evs |-> Append(evs, SigBenchError(t.dialog))]
  ELSE IF t.backend = "faster-whisper"
  THEN LET t1 == [t EXCEPT !.faster_whisper = result]
           evs1 == Append(evs, SigBenchProgress(t.dialog, 50))
       IN  IF whisper_installed
           THEN bench_engine(t1, "whisper", evs1)
           ELSE [t |-> [t1 EXCEPT !.pc = "done"],
                 evs |-> evs1 \o <<SigBenchProgress(t.dialog, 100),
                                   SigResult(t.dialog, result, 2)>>]
  ELSE [t |-> [t EXCEPT !.pc = "done"],
        evs |-> evs \o <<SigBenchProgress(t.dialog, 100),
                         SigResult(t.dialog, t.faster_whisper, result)>>]
\* lines 392-455: what follows an engine's test, whose outcome is `result`
bench_engine_done(t, result, evs) ==
  IF t.backend = "faster-whisper"
  THEN LET t1 == [t EXCEPT !.faster_whisper = result]
           evs1 == Append(evs, SigBenchProgress(t.dialog, 50))
       IN  IF whisper_installed
           THEN bench_engine(t1, "whisper", evs1)
           ELSE [t |-> [t1 EXCEPT !.pc = "done"],
                 evs |-> evs1 \o <<SigBenchProgress(t.dialog, 100),
                                   SigResult(t.dialog, result, 2)>>]
  ELSE [t |-> [t EXCEPT !.pc = "done"],
        evs |-> evs \o <<SigBenchProgress(t.dialog, 100),
                         SigResult(t.dialog, t.faster_whisper, result)>>]

\* a step of BenchmarkThread b
BenchEmit(b, r) ==
  /\ benchmark_threads' = [benchmark_threads EXCEPT
                             ![b] = [r.t EXCEPT !.emitted = @ \o r.evs]]
  /\ evq' = evq \o SelectSeq(r.evs, LAMBDA e : e.sig \in slots)

\* BenchmarkThread.run, lines 341-365
bench_run_begin(b) ==
  /\ b \in 1..Len(benchmark_threads)
  /\ benchmark_threads[b].pc = "started"
  /\ BenchEmit(b, bench_engine(benchmark_threads[b], "faster-whisper", <<>>))
  /\ UNCHANGED <<env_vars, call_vars, fs, queue_vars, button_vars, display_vars,
                 transcription_thread, threads, timers, cache_vars, dialog, last_drop>>

\* lines 344-358 and 457-459: the device query raises something other than
\* ImportError, which is a failure outside both engines' branches
bench_run_failed(b) ==
  /\ b \in 1..Len(benchmark_threads)
  /\ benchmark_threads[b].pc = "started"
  /\ LET t == benchmark_threads[b]
     IN  BenchEmit(b, [t |-> [t EXCEPT !.pc = "done"],
                       evs |-> <<SigBenchError(t.dialog)>>])
  /\ UNCHANGED <<env_vars, call_vars, fs, queue_vars, button_vars, display_vars,
                 transcription_thread, threads, timers, cache_vars, dialog, last_drop>>
\* the model load inside get_model returns (ok) or raises
bench_model_loaded(b, ok) ==
  /\ b \in 1..Len(benchmark_threads)
  /\ benchmark_threads[b].pc = "loading"
  /\ LET t == benchmark_threads[b]
         key == cache_key(t.model_size, t.backend)
         model == get_model_load(loads, key)
     IN  IF ok
         THEN /\ MODEL_CACHE' = get_model_store(MODEL_CACHE, key, model)
              /\ loads' = [loads EXCEPT ![key] = @ + 1]
              /\ BenchEmit(b, [t |-> [t EXCEPT !.model = model, !.pc = "transcribing"],
                               evs |-> <<SigBenchStatus(t.dialog, "warmup")>>])
         ELSE /\ UNCHANGED cache_vars
              /\ BenchEmit(b, bench_engine_done([t EXCEPT !.failed = @ \cup {t.backend}],
                                                0, <<>>))
  /\ UNCHANGED <<env_vars, call_vars, fs, queue_vars, button_vars, display_vars,
                 transcription_thread, threads, timers, dialog, last_drop>>

\* the warm-up and the timed recognition of the engine return (ok) or raise;
\* the status of the timed recognition is emitted once the warm-up is over
bench_transcribed(b, ok) ==
  /\ b \in 1..Len(benchmark_threads)
  /\ benchmark_threads[b].pc = "transcribing"
  /\ LET t == benchmark_threads[b]
     IN  IF ok
         THEN BenchEmit(b, bench_engine_done(t, 1, <<SigBenchStatus(t.dialog, "main")>>))
         ELSE \E warm \in BOOLEAN :
                BenchEmit(b, bench_engine_done([t EXCEPT !.failed = @ \cup {t.backend}], 0,
                               IF warm THEN <<SigBenchStatus(t.dialog, "main")>> ELSE <<>>))
  /\ UNCHANGED <<env_vars, call_vars, fs, queue_vars, button_vars, display_vars,
                 transcription_thread, threads, timers, cache_vars, dialog, last_drop>>

\* BenchmarkDialog.__init__; id counts the dialogs made, 0 before the first
BenchmarkDialog(id) ==
  [id |-> id, open |-> TRUE, test_file |-> EmptyPath, run_button |-> FALSE,
   file_button |-> TRUE, status_label |-> "", progress_bar |-> 0,
   results_text |-> <<>>]

NoDialog == [BenchmarkDialog(0) EXCEPT !.open = FALSE]

\* show_benchmark_dialog, reached through benchmark_button; exec() blocks the
\* input of the main window until the dialog is closed
show_benchmark_dialog ==
  /\ controls_enabled
  /\ ~dialog.open
  /\ dialog.id < MaxDialogs
  /\ dialog' = BenchmarkDialog(dialog.id + 1)
  /\ UNCHANGED <<env_vars, call_vars, fs, queue_vars, button_vars, display_vars, worker_vars,
                 cache_vars, benchmark_threads, last_drop>>

\* select_file with the file chosen in the file dialog
select_file(file_path) ==
  /\ dialog.open
  /\ dialog.file_button
  /\ dialog' = [dialog EXCEPT !.test_file = file_path, !.run_button = TRUE]
  /\ UNCHANGED <<env_vars, call_vars, fs, queue_vars, button_vars, display_vars, worker_vars,
                 cache_vars, benchmark_threads, last_drop>>

\* run_benchmark, reached through run_button, with the text of model_combo
run_benchmark(model_size) ==
  /\ dialog.open
  /\ dialog.run_button
  /\ exists(dialog.test_file, fs)
  /\ Len(benchmark_threads) < MaxBenchmarks
  /\ dialog' = [dialog EXCEPT !.run_button = FALSE, !.file_button = FALSE,
                              !.progress_bar = 0, !.results_text = <<>>]
  /\ benchmark_threads' = Append(benchmark_threads,
                             BenchmarkThread(dialog.test_file, model_size, dialog.id))
  /\ UNCHANGED <<env_vars, call_vars, fs, queue_vars, button_vars, display_vars, worker_vars,
                 cache_vars, last_drop>>

\* QDialog.accept, reached through close_button: the dialog is hidden, its
\* BenchmarkThread is neither stopped nor waited for
accept ==
  /\ dialog.open
  /\ dialog' = [dialog EXCEPT !.open = FALSE]
  /\ UNCHANGED <<env_vars, call_vars, fs, queue_vars, button_vars, display_vars, worker_vars,
                 cache_vars, benchmark_threads, last_drop>>

\* a slot of a dialog: an earlier, closed dialog is not looked at again
dialog_slot(sig, d) ==
  /\ Pending(sig)
  /\ dialog' = IF Head(evq).to = dialog.id THEN d ELSE dialog
  /\ evq' = Tail(evq)
  /\ UNCHANGED <<env_vars, call_vars, fs, queue_vars, button_vars, display_vars,
                 transcription_thread, threads, timers, cache_vars, benchmark_threads,
                 last_drop>>

\* status_label.setText, connected to BenchmarkThread.status
bench_status_slot == dialog_slot("bench_status", [dialog EXCEPT !.status_label = Head(evq).tag])

\* the lambda connected to BenchmarkThread.progress
bench_progress_slot == dialog_slot("bench_progress", [dialog EXCEPT !.progress_bar = Head(evq).n])

on_benchmark_complete ==
  dialog_slot("result", [dialog EXCEPT !.results_text = <<Head(evq).n, Head(evq).m>>,
                                      !.run_button = TRUE, !.file_button = TRUE,
                                      !.status_label = "complete"])

\* results_text <<3, 3>> stands for the text of the error
on_benchmark_error ==
  dialog_slot("bench_error", [dialog EXCEPT !.results_text = <<3, 3>>,
                                           !.run_button = TRUE, !.file_button = TRUE,
                                           !.status_label = "error"])
(***************************************************************************)
(* Closing the window: MainWindow.closeEvent hands the event to the        *)
(* widget's closeEvent and clears the model cache when the event comes     *)
(* back accepted.  The handler is cut where it blocks: at the confirmation *)
(* box, whose event loop goes on delivering queued signals, and at         *)
(* wait(3000), during which the UI thread does nothing.                    *)
(***************************************************************************)
\* a clear_cache that leaves the entries where they are
clear_cache_kept(cache) == cache
\* ModelManager.clear_cache
clear_cache(cache) == [k \in Keys |-> NoModel]
\* the record of a clear_cache call in the history of the sequential caller
ClearCall == Call(NoKey, FALSE, NoModel)
\* ModelManager.clear_cache called by the sequential caller between two
\* get_model calls
clear_cache_call ==
  /\ loading_key = NoKey
  /\ Len(calls) < MaxCalls
  /\ Cardinality({i \in 1..Len(calls) : calls[i] = ClearCall}) < MaxClears
  /\ MODEL_CACHE' = clear_cache(MODEL_CACHE)
  /\ calls' = Append(calls, ClearCall)
  /\ UNCHANGED <<env_vars, fs, queue_vars, button_vars, display_vars, worker_vars,
                 loads, loading_key, bench_vars, last_drop>>

\* gui.py line 309
close_running == transcription_thread # 0 /\ isRunning(threads[transcription_thread])

NoClose ==
  [n |-> 0, done |-> FALSE, active |-> FALSE, asked |-> FALSE, reply |-> "",
   accepted |-> FALSE, worker |-> 0, stop_before |-> FALSE, stop_flag |-> FALSE,
   cache_before |-> [k \in Keys |-> NoModel], cache |-> [k \in Keys |-> NoModel],
   queue_before |-> <<>>, queue |-> <<>>]

\* should_stop of worker w, FALSE when there is none
stop_flag_of(ts, w) == IF w = 0 THEN FALSE ELSE ts[w].should_stop

\* the close event arrives.  Lines 381-384 and 307-316: with a worker running
\* the confirmation box comes up.  Lines 325-327 otherwise: the event is
\* accepted, then `self.taskbar_button` raises AttributeError (the widget has
\* no such attribute: lines 354-364 give it taskbar_progress only), which
\* leaves MainWindow.closeEvent before line 386
closeEvent_request ==
  /\ window = "open"
  /\ last_close.n < MaxCloses
  /\ IF close_running
     THEN /\ window' = "asking"
          /\ last_close' = [NoClose EXCEPT !.n = last_close.n + 1, !.active = TRUE,
                                           !.asked = TRUE,
                                           !.worker = transcription_thread]
     ELSE /\ window' = "closed"
          /\ last_close' = [NoClose EXCEPT
               !.n = last_close.n + 1, !.done = TRUE,
               !.active = \E w \in 1..Len(threads) : isRunning(threads[w]),
               !.accepted = TRUE,
               !.cache_before = MODEL_CACHE, !.cache = MODEL_CACHE,
               !.queue_before = file_queue, !.queue = file_queue]
  /\ UNCHANGED <<os_sep, whisper_installed, probe_vars, fmt_vars, call_vars, fs, queue_vars,
                 button_vars, display_vars, worker_vars, cache_vars, bench_vars, last_drop>>

\* the answer is Yes: lines 318-323 up to wait(3000); with the worker
\* reference gone meanwhile, lines 323 and 386-389 at once
closeEvent_yes ==
  /\ window = "asking"
  /\ IF transcription_thread # 0
     THEN /\ threads' = [threads EXCEPT ![transcription_thread] = stop(@)]
          /\ window' = "waiting"
          /\ last_close' = [last_close EXCEPT
               !.reply = "Yes",
               !.stop_before = stop_flag_of(threads, last_close.worker),
               !.cache_before = MODEL_CACHE, !.queue_before = file_queue]
          /\ UNCHANGED MODEL_CACHE
     ELSE /\ UNCHANGED threads
          /\ window' = "closed"
          /\ MODEL_CACHE' = clear_cache(MODEL_CACHE)
          /\ last_close' = [last_close EXCEPT
               !.reply = "Yes", !.done = TRUE, !.accepted = TRUE,
               !.stop_before = stop_flag_of(threads, last_close.worker),
               !.stop_flag = stop_flag_of(threads, last_close.worker),
               !.cache_before = MODEL_CACHE, !.cache = clear_cache(MODEL_CACHE),
               !.queue_before = file_queue, !.queue = file_queue]
  /\ UNCHANGED <<os_sep, whisper_installed, probe_vars, fmt_vars, call_vars, fs, queue_vars,
                 button_vars, display_vars, transcription_thread, evq, timers, loads,
                 bench_vars, last_drop>>

\* wait(3000) returns: line 323, then lines 386-389
closeEvent_waited ==
  /\ window = "waiting"
  /\ window' = "closed"
  /\ MODEL_CACHE' = clear_cache(MODEL_CACHE)
  /\ last_close' = [last_close EXCEPT
       !.done = TRUE, !.accepted = TRUE,
       !.stop_flag = stop_flag_of(threads, last_close.worker),
       !.cache = clear_cache(MODEL_CACHE), !.queue = file_queue]
  /\ UNCHANGED <<os_sep, whisper_installed, probe_vars, fmt_vars, call_vars, fs, queue_vars,
                 button_vars, display_vars, worker_vars, loads, bench_vars, last_drop>>

\* the answer is No: lines 324-325, and line 386 finds the event ignored
closeEvent_no ==
  /\ window = "asking"
  /\ window' = "open"
  /\ last_close' = [last_close EXCEPT
       !.reply = "No", !.done = TRUE, !.accepted = FALSE,
       !.stop_before = stop_flag_of(threads, last_close.worker),
       !.stop_flag = stop_flag_of(threads, last_close.worker),
       !.cache_before = MODEL_CACHE, !.cache = MODEL_CACHE,
       !.queue_before = file_queue, !.queue = file_queue]
  /\ UNCHANGED <<os_sep, whisper_installed, probe_vars, fmt_vars, call_vars, fs, queue_vars,
                 button_vars, display_vars, worker_vars, cache_vars, bench_vars, last_drop>>

(***************************************************************************)
(* The formatters of TranscriptionThread.  A string is the sequence of its *)
(* characters; a time is a whole number of milliseconds.                   *)
(***************************************************************************)
DigitChars == <<"0", "1", "2", "3", "4", "5", "6", "7", "8", "9">>

\* f"{n}" for n >= 0
RECURSIVE decimal(_)
decimal(n) ==
  IF n < 10 THEN <<DigitChars[n + 1]>>
  ELSE decimal(n \div 10) \o <<DigitChars[(n % 10) + 1]>>

\* f"{n:0<width>d}": zeros on the left up to width characters, never cut
RECURSIVE zero_fill(_, _)
zero_fill(chars, width) ==
  IF Len(chars) >= width THEN chars ELSE zero_fill(<<"0">> \o chars, width)

zero_padded(n, width) == zero_fill(decimal(n), width)

\* timedelta(seconds=...) of a non-negative time: normalised to days, seconds
\* of the day and microseconds of the second
timedelta(ms) ==
  [days |-> ms \div 86400000,
   seconds |-> (ms \div 1000) % 86400,
   microseconds |-> (ms % 1000) * 1000]

\* lines 321-327
format_timestamp(ms) ==
  LET td == timedelta(ms)
      hours == td.seconds \div 3600
      minutes == (td.seconds % 3600) \div 60
      seconds == td.seconds % 60
      milliseconds == td.microseconds \div 1000
  IN  zero_padded(hours, 2) \o <<":">> \o zero_padded(minutes, 2) \o <<":">>
        \o zero_padded(seconds, 2) \o <<",">> \o zero_padded(milliseconds, 3)

\* the characters str.strip() removes
Whitespace == {" ", "\n", "\t"}

RECURSIVE lstrip(_)
lstrip(chars) ==
  IF chars # <<>> /\ Head(chars) \in Whitespace THEN lstrip(Tail(chars)) ELSE chars

RECURSIVE rstrip(_)
rstrip(chars) ==
  IF chars # <<>> /\ chars[Len(chars)] \in Whitespace
  THEN rstrip(SubSeq(chars, 1, Len(chars) - 1))
  ELSE chars

\* str.strip() left out
strip_omitted(chars) == chars

\* str.strip()
strip(chars) == rstrip(lstrip(chars))

\* lines 306-313 counting from 0: `enumerate(segments)`
RECURSIVE create_srt_from_zero(_, _, _)
create_srt_from_zero(segments, i, srt_content) ==
  IF i > Len(segments) THEN srt_content
  ELSE LET segment == segments[i]
           start_time == format_timestamp(segment.start)
           end_time == format_timestamp(segment.end)
           text == strip(segment.text)
       IN  create_srt_from_zero(segments, i + 1,
             srt_content \o decimal(i - 1) \o <<"\n">>
               \o start_time \o <<" ", "-", "-", ">", " ">> \o end_time \o <<"\n">>
               \o text \o <<"\n", "\n">>)

\* lines 306-313: the loop of create_srt from segment i on, srt_content being
\* what the earlier rounds have put together
RECURSIVE create_srt_loop(_, _, _)
create_srt_loop(segments, i, srt_content) ==
  IF i > Len(segments) THEN srt_content
  ELSE LET segment == segments[i]
           start_time == format_timestamp(segment.start)
           end_time == format_timestamp(segment.end)
           text == strip(segment.text)
       IN  create_srt_loop(segments, i + 1,
             srt_content \o decimal(i) \o <<"\n">>
               \o start_time \o <<" ", "-", "-", ">", " ">> \o end_time \o <<"\n">>
               \o text \o <<"\n", "\n">>)

\* lines 304-315
create_srt(segments) == create_srt_loop(segments, 1, <<>>)

\* sep.join(parts)
RECURSIVE join(_, _)
join(sep, parts) ==
  IF parts = <<>> THEN <<>>
  ELSE IF Len(parts) = 1 THEN parts[1]
  ELSE parts[1] \o sep \o join(sep, Tail(parts))

\* lines 317-319
create_txt(segments) ==
  join(<<"\n">>, [i \in 1..Len(segments) |-> strip(segments[i].text)])

\* no formatter call in sight
NoInput == [seconds |-> 0, segments |-> <<>>]
NoOutput == [done |-> {}, stamp |-> <<>>, srt |-> <<>>, txt |-> <<>>]

\* the three calls, each on the arguments in fmt_in
call_format_timestamp ==
  /\ "format_timestamp" \notin fmt_out.done
  /\ fmt_out' = [fmt_out EXCEPT !.done = @ \cup {"format_timestamp"},
                                !.stamp = format_timestamp(fmt_in.seconds)]
  /\ UNCHANGED <<os_sep, whisper_installed, close_vars, probe_vars, fmt_in, call_vars, fs, queue_vars,
                 button_vars, display_vars, worker_vars, cache_vars, bench_vars, last_drop>>

call_create_srt ==
  /\ "create_srt" \notin fmt_out.done
  /\ fmt_out' = [fmt_out EXCEPT !.done = @ \cup {"create_srt"},
                                !.srt = create_srt(fmt_in.segments)]
  /\ UNCHANGED <<os_sep, whisper_installed, close_vars, probe_vars, fmt_in, call_vars, fs, queue_vars,
                 button_vars, display_vars, worker_vars, cache_vars, bench_vars, last_drop>>

call_create_txt ==
  /\ "create_txt" \notin fmt_out.done
  /\ fmt_out' = [fmt_out EXCEPT !.done = @ \cup {"create_txt"},
                                !.txt = create_txt(fmt_in.segments)]
  /\ UNCHANGED <<os_sep, whisper_installed, close_vars, probe_vars, fmt_in, call_vars, fs, queue_vars,
                 button_vars, display_vars, worker_vars, cache_vars, bench_vars, last_drop>>

(***************************************************************************)
(* FFProbeChecker and TranscriptionThread.get_audio_duration               *)
(***************************************************************************)
\* how `ffprobe -version` can end (lines 89-102): exit code 0, another exit
\* code, FileNotFoundError, TimeoutExpired
CheckOutcomes == {"exit_0", "exit_nonzero", "not_found", "timeout"}

\* how the duration query can end (lines 278-302): a length is printed, a
\* non-zero exit code, TimeoutExpired, output that is not the JSON expected
QueryOutcomes == {"duration", "exit_nonzero", "timeout", "bad_json"}

\* subprocess.run(['ffprobe', ...]) is entered by worker c
subprocess_run(log, c, cmd, after_report) ==
  Append(log, [kind |-> "run", by |-> c, cmd |-> cmd, value |-> 0, late |-> after_report])

\* get_audio_duration returns value to worker c
duration_returned(log, c, value, call_after_report) ==
  Append(log, [kind |-> "return", by |-> c, cmd |-> "", value |-> value,
               late |-> call_after_report])

\* get_audio_duration up to its first wait: is_available lines 85-88, then
\* lines 265-277
get_audio_duration_begin(c) ==
  /\ probes[c].pc = "idle"
  /\ Len(SelectSeq(probe_log, LAMBDA e : e.kind = "return")) + Cardinality({d \in 1..MaxCallers : probes[d].pc # "idle"}) < MaxProbeCalls
  /\ IF _is_available = "None"
     THEN /\ probes' = [probes EXCEPT ![c] = [pc |-> "checking", late |-> reported]]
          /\ probe_log' = subprocess_run(probe_log, c, "version", reported)
     ELSE IF _is_available = "False"
     THEN /\ probes' = [probes EXCEPT ![c] = [pc |-> "idle", late |-> reported]]
          /\ probe_log' = duration_returned(probe_log, c, 0, reported)
     ELSE /\ probes' = [probes EXCEPT ![c] = [pc |-> "querying", late |-> reported]]
          /\ probe_log' = subprocess_run(probe_log, c, "query", reported)
  /\ UNCHANGED <<os_sep, whisper_installed, close_vars, _is_available, reported, fmt_vars, call_vars, fs,
                 queue_vars, button_vars, display_vars, worker_vars, cache_vars,
                 bench_vars, last_drop>>

\* is_available lines 95-104 once `ffprobe -version` has ended, then
\* get_audio_duration lines 265-277
is_available_return(c, outcome) ==
  /\ probes[c].pc = "checking"
  /\ IF outcome = "exit_0"
     THEN /\ _is_available' = "True"
          /\ reported' = reported
          /\ probes' = [probes EXCEPT ![c].pc = "querying"]
          /\ probe_log' = subprocess_run(probe_log, c, "query", reported)
     ELSE /\ _is_available' = "False"
          /\ reported' = TRUE
          /\ probes' = [probes EXCEPT ![c].pc = "idle"]
          /\ probe_log' = duration_returned(probe_log, c, 0, probes[c].late)
  /\ UNCHANGED <<os_sep, whisper_installed, close_vars, fmt_vars, call_vars, fs, queue_vars,
                 button_vars, display_vars, worker_vars, cache_vars, bench_vars, last_drop>>

\* get_audio_duration lines 284-302 once the query has ended
get_audio_duration_return(c, outcome) ==
  /\ probes[c].pc = "querying"
  /\ probes' = [probes EXCEPT ![c].pc = "idle"]
  /\ probe_log' = duration_returned(probe_log, c,
                    IF outcome = "duration" THEN SomeDuration ELSE 0, probes[c].late)
  /\ UNCHANGED <<os_sep, whisper_installed, close_vars, _is_available, reported, fmt_vars, call_vars, fs,
                 queue_vars, button_vars, display_vars, worker_vars, cache_vars,
                 bench_vars, last_drop>>

(***************************************************************************)
(* Initial state: the widget after __init__, an empty cache, all files on  *)
(* disk.                                                                   *)
(***************************************************************************)
InitWidget ==
  /\ fs = DiskFiles
  /\ file_queue = <<>>
  /\ file_list = <<>>
  /\ processed_files = <<>>
  /\ transcription_thread = 0
  /\ acceptDrops = TRUE
  /\ controls_enabled = TRUE
  /\ start_enabled = FALSE
  /\ stop_enabled = FALSE
  /\ status_label = ""
  /\ progress_bar = 0
  /\ overall_progress_bar = 0
  /\ performance_label = FALSE
  /\ file_counter_label = [total |-> 0, processed |-> 0, errors |-> 0]
  /\ timers = 0
  /\ threads = <<>>
  /\ evq = <<>>
  /\ MODEL_CACHE = [k \in Keys |-> NoModel]
  /\ loads = [k \in Keys |-> 0]
  /\ calls = <<>>
  /\ loading_key = NoKey
  /\ dialog = NoDialog
  /\ benchmark_threads = <<>>
  /\ faults = 0
  /\ _is_available = "None"
  /\ probes = [c \in 1..MaxCallers |-> [pc |-> "idle", late |-> FALSE]]
  /\ probe_log = <<>>
  /\ reported = FALSE
  /\ fmt_out = NoOutput
  /\ window = "open"
  /\ last_close = NoClose
  /\ last_drop = [n |-> 0, fresh |-> FALSE, paths |-> <<>>, queue |-> <<>>,
                  fs0 |-> {}, fs1 |-> {}]

(***************************************************************************)
(* SpecIntake: drops of files and folders, clear, deletions                *)
(***************************************************************************)
\* what a user can drag onto the window: any file or folder of the disk
Droppable == {toLocalFile(DiskListing[i]) : i \in 1..Len(DiskListing)}
             \cup {toLocalFile(DiskDirs[i]) : i \in 1..Len(DiskDirs)}

\* the selections of at most n distinct paths, in every order
SeqsUpTo(S, n) ==
  {q \in UNION {[1..k -> S] : k \in 1..n} : \A i, j \in 1..Len(q) : i # j => q[i] # q[j]}

InitIntake ==
  /\ os_sep \in {"/", "\\"}
  /\ whisper_installed = TRUE
  /\ slots = {}
  /\ fmt_in = NoInput
  /\ InitWidget

IntakeDrop ==
  /\ \E paths \in SeqsUpTo(Droppable, MaxDropLen) :
       \E vanish \in {v \in SUBSET fs : Cardinality(v) <= MaxVanish} :
         dropEvent(paths, vanish)
  /\ UNCHANGED <<faults, slots>>

IntakeClear == clear_file_list /\ UNCHANGED <<faults, slots>>

NextIntake == IntakeDrop \/ IntakeClear

SpecIntake == InitIntake /\ [][NextIntake]_vars

(***************************************************************************)
(* Spec: the widget with its TranscriptionThreads                          *)
(***************************************************************************)
\* the files dragged onto the window, one at a time: two with the same
\* basename in different folders, two with the same stem in one folder
MainDroppable == {toLocalFile(FileA), toLocalFile(FileAWav), toLocalFile(FileSA)}

\* the settings chosen in the combo boxes when start is pressed
MainSettings ==
  {[model_size |-> "base", output_format |-> "srt", backend |-> "faster-whisper"],
   [model_size |-> "tiny", output_format |-> "txt", backend |-> "faster-whisper"]}

\* the signals whose slots change the queue, the list or the run control; the
\* slots of progress, status and overall_progress only repaint
QueueSignals == {"finished", "error", "current_file", "file_not_found", "benchmark_result"}

Init ==
  /\ os_sep = "/"
  /\ whisper_installed = TRUE
  /\ slots = QueueSignals
  /\ fmt_in = NoInput
  /\ InitWidget

\* what a step of the widget or of a successful worker leaves alone
NoFault == UNCHANGED <<faults, slots>>

\* m/a.mp3 is the first file of a queue
Drop ==
  /\ \E path \in MainDroppable :
       /\ file_queue = <<>> => path = toLocalFile(FileA)
       /\ dropEvent(<<path>>, {})
  /\ NoFault

Clear == clear_file_list /\ NoFault

Delete ==
  /\ Cardinality(DiskFiles \ fs) < MaxDeletes
  /\ \E i \in 1..Len(file_queue) : DeleteFile(Norm(file_queue[i]))
  /\ NoFault

Start ==
  /\ \E c \in MainSettings : start_processing(c.model_size, c.output_format, c.backend)
  /\ NoFault

Stop == stop_processing /\ NoFault

RunBegin == (\E w \in 1..Len(threads) : run_begin(w)) /\ NoFault

ModelLoaded == (\E w \in 1..Len(threads) : run_model_loaded(w, TRUE)) /\ NoFault

FileDone == (\E w \in 1..Len(threads) : run_file_done(w, "ok")) /\ NoFault

\* the steps of a worker in which the environment makes something fail
Fault ==
  /\ faults < MaxFaults
  /\ faults' = faults + 1
  /\ UNCHANGED slots

LoadFails == (\E w \in 1..Len(threads) : run_model_loaded(w, FALSE)) /\ Fault

FileRaises == (\E w \in 1..Len(threads) : run_file_done(w, "raise")) /\ Fault

WriteFails == (\E w \in 1..Len(threads) : run_file_done(w, "write_failed")) /\ Fault

CurrentFile == update_current_file /\ NoFault

BenchmarkResult == on_benchmark_result /\ NoFault

FileNotFound == on_file_not_found /\ NoFault

FileFinished == on_file_finished /\ NoFault

FileError == on_file_error /\ NoFault

AllComplete == on_all_processing_complete /\ NoFault

Next ==
  \/ Drop
  \/ Clear
  \/ Delete
  \/ Start
  \/ Stop
  \/ RunBegin
  \/ ModelLoaded
  \/ FileDone
  \/ LoadFails
  \/ FileRaises
  \/ WriteFails
  \/ CurrentFile
  \/ BenchmarkResult
  \/ FileNotFound
  \/ FileFinished
  \/ FileError
  \/ AllComplete

Spec == Init /\ [][Next]_vars

(***************************************************************************)
(* SpecLive: Spec with the scheduling the code rests on.  A started        *)
(* QThread gets to run and the blocking calls of run() return, one way or  *)
(* the other; the event loop of the UI thread delivers every queued signal *)
(* and fires every single-shot timer.  Nothing obliges the user to act.    *)
(***************************************************************************)
Fairness ==
  /\ WF_vars(RunBegin)
  /\ WF_vars(ModelLoaded)
  /\ WF_vars(FileDone)
  /\ WF_vars(CurrentFile)
  /\ WF_vars(BenchmarkResult)
  /\ WF_vars(FileNotFound)
  /\ WF_vars(FileFinished)
  /\ WF_vars(FileError)
  /\ WF_vars(AllComplete)

SpecLive == Init /\ [][Next]_vars /\ Fairness

(***************************************************************************)
(* SpecGetModel: one caller asks ModelManager for models, one call after   *)
(* the other                                                               *)
(***************************************************************************)
InitGetModel ==
  /\ os_sep = "/"
  /\ whisper_installed \in BOOLEAN
  /\ slots = {}
  /\ fmt_in = NoInput
  /\ InitWidget

GetModelBegin ==
  /\ \E model_size \in ModelSizes, backend \in Backends : get_model_begin(model_size, backend)
  /\ NoFault

GetModelLoaded == get_model_return(TRUE) /\ NoFault

GetModelFails == get_model_return(FALSE) /\ Fault

NextGetModel == GetModelBegin \/ GetModelLoaded \/ GetModelFails

SpecGetModel == InitGetModel /\ [][NextGetModel]_vars

(***************************************************************************)
(* SpecManager: the sequential caller of SpecGetModel, who also calls      *)
(* ModelManager.clear_cache                                                *)
(***************************************************************************)
ClearCache == clear_cache_call /\ NoFault

NextManager == GetModelBegin \/ GetModelLoaded \/ GetModelFails \/ ClearCache

SpecManager == InitGetModel /\ [][NextManager]_vars

(***************************************************************************)
(* SpecCache: one batch of the widget beside the benchmarks of the dialog, *)
(* all of them calling ModelManager.get_model                              *)
(***************************************************************************)
\* every signal of the two kinds of thread
AllSignals ==
  QueueSignals \cup {"progress", "status", "overall_progress",
                     "bench_status", "bench_progress", "result"}

CacheSettings ==
  {[model_size |-> "tiny", output_format |-> "srt", backend |-> "faster-whisper"],
   [model_size |-> "base", output_format |-> "txt", backend |-> "whisper"]}

InitCache ==
  /\ os_sep = "/"
  /\ whisper_installed \in BOOLEAN
  /\ slots = QueueSignals \cup {"result"}
  /\ fmt_in = NoInput
  /\ InitWidget

\* the main window takes input while no modal dialog is shown
Interactive == ~dialog.open

CacheDrop == Interactive /\ file_queue = <<>> /\ Drop

\* one batch
CacheStart ==
  /\ Interactive
  /\ threads = <<>>
  /\ \E c \in CacheSettings : start_processing(c.model_size, c.output_format, c.backend)
  /\ NoFault

OpenDialog == show_benchmark_dialog /\ NoFault

SelectFile == select_file(toLocalFile(FileA)) /\ NoFault

RunBenchmark == (\E sz \in ModelSizes : run_benchmark(sz)) /\ NoFault

CloseDialog == accept /\ NoFault

BenchBegin == (\E b \in 1..Len(benchmark_threads) : bench_run_begin(b)) /\ NoFault

BenchModelLoaded ==
  (\E b \in 1..Len(benchmark_threads) : bench_model_loaded(b, TRUE)) /\ NoFault

BenchTranscribed ==
  (\E b \in 1..Len(benchmark_threads) : bench_transcribed(b, TRUE)) /\ NoFault

BenchLoadFails ==
  (\E b \in 1..Len(benchmark_threads) : bench_model_loaded(b, FALSE)) /\ Fault

BenchTranscribeFails ==
  (\E b \in 1..Len(benchmark_threads) : bench_transcribed(b, FALSE)) /\ Fault

Progress == on_progress /\ NoFault

Status == update_status /\ NoFault

OverallProgress == update_overall_progress /\ NoFault

BenchStatus == bench_status_slot /\ NoFault

BenchProgress == bench_progress_slot /\ NoFault

BenchmarkComplete == on_benchmark_complete /\ NoFault

NextCache ==
  \/ CacheDrop
  \/ CacheStart
  \/ RunBegin
  \/ ModelLoaded
  \/ FileDone
  \/ LoadFails
  \/ CurrentFile
  \/ BenchmarkResult
  \/ FileFinished
  \/ FileError
  \/ AllComplete
  \/ OpenDialog
  \/ SelectFile
  \/ RunBenchmark
  \/ CloseDialog
  \/ BenchBegin
  \/ BenchModelLoaded
  \/ BenchTranscribed
  \/ BenchLoadFails
  \/ BenchTranscribeFails
  \/ BenchmarkComplete

SpecCache == InitCache /\ [][NextCache]_vars

(***************************************************************************)
(* SpecDisplay: one batch and one benchmark with every signal delivered,   *)
(* the repainting ones included                                            *)
(***************************************************************************)
InitDisplay ==
  /\ os_sep = "/"
  /\ whisper_installed = TRUE
  /\ slots = AllSignals
  /\ fmt_in = NoInput
  /\ InitWidget

DisplayDrop == Interactive /\ Drop

DisplayClear == Interactive /\ Clear

DisplayStart == Interactive /\ threads = <<>> /\ Start

DisplayRunBenchmark == benchmark_threads = <<>> /\ RunBenchmark

NextDisplay ==
  \/ DisplayDrop
  \/ DisplayClear
  \/ DisplayStart
  \/ RunBegin
  \/ ModelLoaded
  \/ FileDone
  \/ Progress
  \/ Status
  \/ CurrentFile
  \/ OverallProgress
  \/ BenchmarkResult
  \/ FileFinished
  \/ AllComplete
  \/ OpenDialog
  \/ SelectFile
  \/ DisplayRunBenchmark
  \/ CloseDialog
  \/ BenchBegin
  \/ BenchModelLoaded
  \/ BenchTranscribed
  \/ BenchStatus
  \/ BenchProgress
  \/ BenchmarkComplete

SpecDisplay == InitDisplay /\ [][NextDisplay]_vars

(***************************************************************************)
(* SpecBench: the benchmark dialog alone, opened, closed and opened again, *)
(* with the reference backend installed or not and with failures inside    *)
(* and outside the two engines' branches of BenchmarkThread.run            *)
(***************************************************************************)
BenchSignals == {"bench_progress", "result", "bench_error"}

InitBench ==
  /\ os_sep = "/"
  /\ whisper_installed \in BOOLEAN
  /\ slots = BenchSignals
  /\ fmt_in = NoInput
  /\ InitWidget

\* the failures of one benchmark: the device query, or one or both engines
BenchFault ==
  /\ faults < MaxBenchFaults
  /\ faults' = faults + 1
  /\ UNCHANGED slots

BenchDeviceFails ==
  (\E b \in 1..Len(benchmark_threads) : bench_run_failed(b)) /\ BenchFault

BenchEngineLoadFails ==
  (\E b \in 1..Len(benchmark_threads) : bench_model_loaded(b, FALSE)) /\ BenchFault

BenchEngineFails ==
  (\E b \in 1..Len(benchmark_threads) : bench_transcribed(b, FALSE)) /\ BenchFault

BenchmarkError == on_benchmark_error /\ NoFault

NextBench ==
  \/ OpenDialog
  \/ SelectFile
  \/ RunBenchmark
  \/ CloseDialog
  \/ BenchBegin
  \/ BenchModelLoaded
  \/ BenchTranscribed
  \/ BenchDeviceFails
  \/ BenchEngineLoadFails
  \/ BenchEngineFails
  \/ BenchProgress
  \/ BenchmarkComplete
  \/ BenchmarkError

SpecBench == InitBench /\ [][NextBench]_vars

(***************************************************************************)
(* SpecProbe: the workers inside run() asking for audio lengths.  A worker  *)
(* calls get_audio_duration once per file (line 173); two workers can be in *)
(* run() at once, so the calls of MaxCallers workers interleave at the     *)
(* ffprobe processes they wait for.                                        *)
(***************************************************************************)
InitProbe ==
  /\ os_sep = "/"
  /\ whisper_installed = TRUE
  /\ slots = {}
  /\ fmt_in = NoInput
  /\ InitWidget

\* a worker reaches line 173
ProbeBegin ==
  /\ \E c \in 1..MaxCallers : get_audio_duration_begin(c)
  /\ NoFault

\* `ffprobe -version` ends: exit code 0
CheckSucceeds ==
  /\ \E c \in 1..MaxCallers : is_available_return(c, "exit_0")
  /\ NoFault

\* `ffprobe -version` ends with another exit code, is not found or times out
CheckFails ==
  /\ \E c \in 1..MaxCallers :
       \E outcome \in CheckOutcomes \ {"exit_0"} : is_available_return(c, outcome)
  /\ NoFault

\* the duration query ends
QueryReturns ==
  /\ \E c \in 1..MaxCallers :
       \E outcome \in QueryOutcomes : get_audio_duration_return(c, outcome)
  /\ NoFault

NextProbe ==
  \/ ProbeBegin
  \/ CheckSucceeds
  \/ CheckFails
  \/ QueryReturns

SpecProbe == InitProbe /\ [][NextProbe]_vars

(***************************************************************************)
(* SpecFormat: the formatters on arguments drawn from bounded sets          *)
(***************************************************************************)
\* times in milliseconds: zero, the ends of the millisecond, second, minute
\* and hour fields, 3661.5 s, the last millisecond of a day, a day and more
Times == {0, 1, 999, 1000, 59999, 60000, 3599999, 3600000, 3661500,
          86399999, 86400000, 90061001}

\* segment texts as a recognition returns them
Texts ==
  {<<"H", "e", "l", "l", "o">>,
   <<" ", "W", "o", "r", "l", "d">>,
   <<"\t", "a", " ", "b", " ", "\n">>,
   <<" ", " ">>,
   <<>>}

SegmentSpans == {<<0, 1500>>, <<1500, 3661500>>}

Segments ==
  {[start |-> span[1], end |-> span[2], text |-> text] : span \in SegmentSpans, text \in Texts}

SegmentLists == UNION {[1..n -> Segments] : n \in 0..MaxSegments}

InitFormat ==
  /\ os_sep = "/"
  /\ whisper_installed = TRUE
  /\ slots = {}
  /\ InitWidget
  /\ fmt_in \in [seconds : Times, segments : SegmentLists]

FormatTimestamp == call_format_timestamp /\ NoFault

CreateSrt == call_create_srt /\ NoFault

CreateTxt == call_create_txt /\ NoFault

NextFormat ==
  \/ FormatTimestamp
  \/ CreateSrt
  \/ CreateTxt

SpecFormat == InitFormat /\ [][NextFormat]_vars

(***************************************************************************)
(* SpecClose: batches run while the window is being closed.  The user can   *)
(* drop, start and stop only at the open window; the slots also run under  *)
(* the confirmation box; the workers run until the window is closed.       *)
(***************************************************************************)
InitClose ==
  /\ os_sep = "/"
  /\ whisper_installed = TRUE
  /\ slots = QueueSignals
  /\ fmt_in = NoInput
  /\ InitWidget

AtWindow == window = "open"
EventLoop == window \in {"open", "asking"}
Alive == window # "closed"

WinDrop == AtWindow /\ Drop
WinStart == AtWindow /\ Start
WinStop == AtWindow /\ Stop
WinRunBegin == Alive /\ RunBegin
WinModelLoaded == Alive /\ ModelLoaded
WinFileDone == Alive /\ FileDone
WinCurrentFile == EventLoop /\ CurrentFile
WinBenchmarkResult == EventLoop /\ BenchmarkResult
WinFileFinished == EventLoop /\ FileFinished
WinAllComplete == EventLoop /\ AllComplete

CloseRequest == closeEvent_request /\ NoFault
CloseYes == closeEvent_yes /\ NoFault
CloseWaited == closeEvent_waited /\ NoFault
CloseNo == closeEvent_no /\ NoFault

NextClose ==
  \/ WinDrop
  \/ WinStart
  \/ WinStop
  \/ WinRunBegin
  \/ WinModelLoaded
  \/ WinFileDone
  \/ WinCurrentFile
  \/ WinBenchmarkResult
  \/ WinFileFinished
  \/ WinAllComplete
  \/ CloseRequest
  \/ CloseYes
  \/ CloseWaited
  \/ CloseNo

SpecClose == InitClose /\ [][NextClose]_vars

(***************************************************************************)
(* Claims on the intake                                                    *)
(***************************************************************************)
\* the path strings of the files a dropped path offers: the path itself when
\* it is a file, every file below it when it is a directory
PathsBelow(d, disk) ==
  {MkPath(f.dirs, [i \in 1..Len(f.dirs) |-> IF i <= Len(d.seps) THEN d.seps[i] ELSE os_sep],
          f.stem, f.ext) :
     f \in {g \in disk : /\ Len(g.dirs) > Len(d.dirs)
                         /\ SubSeq(g.dirs, 1, Len(d.dirs) + 1) = Append(d.dirs, d.stem)}}

Offered(paths, disk) ==
  UNION {IF isfile(paths[i], disk) THEN {paths[i]}
         ELSE IF isdir(paths[i]) THEN PathsBelow(paths[i], disk)
         ELSE {} : i \in 1..Len(paths)}

\* the suffix is one of the allow-list, compared without regard to case
AllowedAnyCase(e) ==
  \E i \in 1..Len(valid_extensions) :
    \/ e = valid_extensions[i]
    \/ <<e, valid_extensions[i]>> \in {<<".MP3", ".mp3">>, <<".Wav", ".wav">>}

Accepted(d) ==
  {p \in Offered(d.paths, d.fs0) :
     AllowedAnyCase(p.ext) /\ ~InSeq(p, d.queue) /\ Norm(p) \in d.fs1}

\* C5 (as claimed): no file is queued twice, whether it was dropped directly
\* or found by a folder scan
C5_FileQueuedOnce ==
  \A i, j \in 1..Len(file_queue) :
    i # j => Norm(file_queue[i]) # Norm(file_queue[j])

\* C6: a dropEvent appends exactly the offered files whose suffix is in the
\* allow-list (ignoring case), that are not queued yet and that exist when
\* they are added; each once, after the entries that were there before
C6_QueuedIff ==
  last_drop.fresh =>
    /\ Len(file_queue) = Len(last_drop.queue) + Cardinality(Accepted(last_drop))
    /\ SubSeq(file_queue, 1, Len(last_drop.queue)) = last_drop.queue
    /\ {file_queue[i] : i \in (Len(last_drop.queue) + 1)..Len(file_queue)}
         = Accepted(last_drop)

\* C6 witness: a drop of a folder that queued an upper-case suffix, skipped a
\* file that was queued already, one that had vanished and one that is no media
C6_Witness ==
  /\ last_drop.fresh
  /\ \E i \in 1..Len(last_drop.paths) : isdir(last_drop.paths[i])
  /\ \E p \in Accepted(last_drop) : p.ext = ".MP3"
  /\ \E p \in Offered(last_drop.paths, last_drop.fs0) : InSeq(p, last_drop.queue)
  /\ \E p \in Offered(last_drop.paths, last_drop.fs0) :
       AllowedAnyCase(p.ext) /\ Norm(p) \notin last_drop.fs1
  /\ \E p \in Offered(last_drop.paths, last_drop.fs0) : p.ext = ".pdf"

(***************************************************************************)
(* Claims on a run                                                         *)
(***************************************************************************)
Terminal == {"completed", "error", "not_found"}

\* the threads whose run() has begun or been asked for and that are still
\* known: a collected thread has no files
Workers == {w \in 1..Len(threads) : threads[w].file_paths # <<>>}

\* the number of rows of the list with a status
count_status(list, status) == Cardinality({i \in 1..Len(list) : list[i].status = status})

\* run end of the current batch: run() has returned and the UI thread has
\* handled every event the worker posted
RunEnd(w) ==
  /\ w = transcription_thread
  /\ threads[w].pc = "done"
  /\ \A i \in 1..Len(evq) : evq[i].w # w

\* the events of a log that name a queue entry, or announce one
FileEvents(log) ==
  {i \in 1..Len(log) :
     log[i].sig \in {"current_file", "overall_progress", "file_not_found", "finished"}
     \/ (log[i].sig = "error" /\ log[i].path # EmptyPath)}

\* C1 (as claimed, for a run that loaded its model and was never stopped): at
\* run end every queued file is completed, error or not_found, and the three
\* counts add up to the number of queued files
C1_RunEndAllTerminal ==
  \A w \in Workers :
    (RunEnd(w) /\ ~threads[w].stopped /\ threads[w].model # NoModel) =>
      /\ \A i \in 1..Len(file_list) : file_list[i].status \in Terminal
      /\ count_status(file_list, "completed") + count_status(file_list, "error")
           + count_status(file_list, "not_found") = Len(threads[w].file_paths)

\* C2: when stop() was called while file k was in flight, the recognition of
\* file k goes on, the thread emits finished or error for file k, and it emits
\* nothing for any later file: after the outcome of file k only the
\* benchmark_result of the run may follow
C2_StopInFlight ==
  \A w \in Workers :
    LET t == threads[w]
        k == t.stop_at
        later == {t.file_paths[j] : j \in (k + 1)..Len(t.file_paths)}
    IN  k > 0 =>
          /\ t.should_stop
          /\ t.pc = "transcribing" => t.index = k
          /\ \A i \in 1..Len(t.emitted) :
               /\ t.emitted[i].path \notin later
               /\ t.emitted[i].sig = "overall_progress" => t.emitted[i].n <= k
          /\ t.pc = "done" =>
               \E i \in 1..Len(t.emitted) :
                 /\ t.emitted[i].sig \in {"finished", "error"}
                 /\ t.emitted[i].path = t.file_paths[k]
                 /\ \A j \in (i + 1)..Len(t.emitted) :
                      t.emitted[j].sig = "benchmark_result"

\* C2 witness: a thread stopped during its first file of two has returned
\* after finishing that file
C2_Witness ==
  \E w \in Workers :
    /\ threads[w].stop_at = 1
    /\ Len(threads[w].file_paths) = 2
    /\ threads[w].pc = "done"
    /\ \E i \in 1..Len(threads[w].emitted) : threads[w].emitted[i].sig = "finished"

\* C3: a run whose model load failed has emitted no current_file,
\* file_not_found, finished or per-file error, and exactly one error, whose
\* file name is empty; handled by the widget, it leaves every row of the
\* first batch pending
C3_LoadFailure ==
  \A w \in Workers :
    LET t == threads[w]
    IN  (t.pc = "done" /\ t.model = NoModel) =>
          /\ FileEvents(t.emitted) = {}
          /\ Cardinality({i \in 1..Len(t.emitted) : t.emitted[i].sig = "error"}) = 1
          /\ \A i \in 1..Len(t.emitted) :
               t.emitted[i].sig = "error" => t.emitted[i].path = EmptyPath
          /\ w = 1 => \A i \in 1..Len(file_list) : file_list[i].status = "pending"

\* C3 witness: the load of the first run failed and the widget has handled
\* the error
C3_Witness ==
  /\ 1 \in Workers
  /\ threads[1].pc = "done"
  /\ threads[1].model = NoModel
  /\ Len(threads[1].file_paths) = 2
  /\ evq = <<>>

\* C4 (as claimed): at most one TranscriptionThread is inside run()
C4_OneWorker ==
  Cardinality({w \in 1..Len(threads) : isRunning(threads[w])}) <= 1

\* the calls that returned a model
Returned == {i \in 1..Len(calls) : calls[i].model # NoModel}

\* C7: of the calls one caller makes one after the other, those for the
\* same key return the same object, the second and later ones from the cache,
\* so that a key is loaded at most once; the first call for a key is not
\* served from the cache, and its load makes an entry that leaves every
\* entry returned before in place
C7_CachedOnce ==
  /\ \A k \in Keys : loads[k] <= 1
  /\ \A i \in Returned :
       /\ MODEL_CACHE[calls[i].key] = calls[i].model
       /\ \A j \in (i + 1)..Len(calls) :
            calls[j].key = calls[i].key => calls[j].hit /\ calls[j].model = calls[i].model
  /\ \A j \in 1..Len(calls) :
       (\A i \in 1..(j - 1) : calls[i].key # calls[j].key) => ~calls[j].hit

\* C7 witness: a key was asked for twice, the second time served from the
\* cache, and a load for another key was made in between
C7_Witness ==
  \E i, j, l \in Returned :
    /\ i < j /\ j < l
    /\ calls[i].key = calls[l].key
    /\ calls[j].key # calls[i].key
    /\ ~calls[i].hit /\ ~calls[j].hit /\ calls[l].hit

\* C9 (as claimed): the output files a run writes are pairwise different
C9_OutputsDistinct ==
  \A w \in Workers :
    \A i, j \in 1..Len(threads[w].written) :
      i # j => threads[w].written[i] # threads[w].written[j]

\* C10 (as claimed): a row that is completed, error or not_found keeps its
\* status in every step that does not clear the queue
C10_TerminalStays ==
  [][\A i \in 1..Len(file_list) :
       file_list[i].status \in Terminal =>
         \/ file_list' = <<>>
         \/ file_list'[i].status = file_list[i].status]_vars

(***************************************************************************)
(* Claims on concurrent get_model calls                                    *)
(***************************************************************************)
\* C8 (as claimed): whichever threads call get_model for a key, and however
\* their calls overlap, the key is loaded at most once and every thread
\* that got a model for it holds the cached object
C8_OneInstancePerKey ==
  /\ \A k \in Keys : loads[k] <= 1
  /\ \A w \in Workers :
       threads[w].model # NoModel =>
         threads[w].model = MODEL_CACHE[cache_key(threads[w].model_size, threads[w].backend)]
  /\ \A b \in 1..Len(benchmark_threads) :
       benchmark_threads[b].pc = "transcribing" =>
         benchmark_threads[b].model
           = MODEL_CACHE[cache_key(benchmark_threads[b].model_size,
                                   benchmark_threads[b].backend)]

(***************************************************************************)
(* Claims on the run control and on the events of a run                    *)
(***************************************************************************)
\* the threads inside run()
InRun == {w \in 1..Len(threads) : threads[w].pc \in {"loading", "transcribing"}}

\* C11 (as claimed): while a TranscriptionThread is inside run() the widget
\* accepts no drops
C11_NoDropsInRun == InRun # {} => ~acceptDrops

\* the place in the snapshot of the file an event names: the index carried
\* by overall_progress, the position of the path carried by file_not_found,
\* finished and a per-file error; 0 for an event that names no file
EventFile(t, e) ==
  IF e.sig = "overall_progress" THEN e.n
  ELSE IF e.sig \in {"file_not_found", "finished", "error"} /\ InSeq(e.path, t.file_paths)
  THEN CHOOSE i \in 1..Len(t.file_paths) : t.file_paths[i] = e.path
  ELSE 0

\* C12: a worker visits the files of the snapshot it was created with, and
\* no others, in the order of the snapshot: every event that names a file
\* names one of the snapshot, an event of file i is never emitted after one of
\* a file j > i, current_file announces the file whose index follows, and a
\* run that loaded its model and was not stopped leaves out no file; the
\* queue of the widget is not looked at
C12_SnapshotInOrder ==
  \A w \in Workers :
    LET t == threads[w]
        log == t.emitted
        n == Len(t.file_paths)
    IN  /\ \A p \in 1..Len(log) :
             /\ log[p].path # EmptyPath => InSeq(log[p].path, t.file_paths)
             /\ log[p].sig = "overall_progress" => log[p].n \in 1..n /\ log[p].m = n
             /\ log[p].sig = "current_file" =>
                  /\ p < Len(log)
                  /\ log[p + 1].sig = "overall_progress"
                  /\ log[p].base = basename(t.file_paths[log[p + 1].n])
        /\ \A p, q \in 1..Len(log) :
             (p < q /\ EventFile(t, log[p]) > 0 /\ EventFile(t, log[q]) > 0)
               => EventFile(t, log[p]) <= EventFile(t, log[q])
        /\ (t.pc = "done" /\ ~t.stopped /\ t.model # NoModel) =>
             \A i \in 1..n : \E p \in 1..Len(log) : EventFile(t, log[p]) = i

\* C12 witness: a worker has returned from a run over two files, never
\* stopped, although the queue was cleared or had grown in the meantime
C12_Witness ==
  \E w \in Workers :
    /\ threads[w].pc = "done"
    /\ ~threads[w].stopped
    /\ Len(threads[w].file_paths) = 2
    /\ file_queue # threads[w].file_paths
    /\ \E p \in 1..Len(threads[w].emitted) :
         /\ threads[w].emitted[p].sig = "finished"
         /\ threads[w].emitted[p].path = threads[w].file_paths[2]

\* the events of a log that name file i of the snapshot, current_file
\* counted with the overall_progress that follows it
NamesFile(t, p, i) ==
  LET log == t.emitted
  IN  \/ EventFile(t, log[p]) = i
      \/ /\ log[p].sig = "current_file"
         /\ p < Len(log)
         /\ log[p + 1].sig = "overall_progress"
         /\ log[p + 1].n = i

\* C13: a file that is gone when the worker reaches it gets file_not_found
\* and, right after it, one error carrying the same path, and no other event
\* (no current_file, overall_progress or finished names it, and no status or
\* progress comes between the two); the worker then goes on to the next file
\* of the snapshot unless it was told to stop, and after the last file only
\* the benchmark result can follow
C13_MissingFileSkipped ==
  \A w \in Workers :
    LET t == threads[w]
        log == t.emitted
        n == Len(t.file_paths)
    IN  \A p \in 1..Len(log) :
          log[p].sig = "file_not_found" =>
            LET i == EventFile(t, log[p])
            IN  /\ i \in 1..n
                /\ p < Len(log)
                /\ log[p + 1].sig = "error"
                /\ log[p + 1].path = log[p].path
                /\ \A q \in 1..Len(log) : NamesFile(t, q, i) => q \in {p, p + 1}
                /\ (i < n /\ ~t.should_stop) =>
                     /\ p + 2 <= Len(log)
                     /\ NamesFile(t, p + 2, i + 1)
                /\ i = n =>
                     \A q \in (p + 2)..Len(log) : log[q].sig = "benchmark_result"

\* C13 witness: the first file of a snapshot of two was gone when the worker
\* reached it, and the worker has finished the second
C13_Witness ==
  \E w \in Workers :
    LET t == threads[w]
    IN  /\ Len(t.file_paths) = 2
        /\ \E p, q \in 1..Len(t.emitted) :
             /\ t.emitted[p].sig = "file_not_found"
             /\ t.emitted[p].path = t.file_paths[1]
             /\ t.emitted[q].sig = "finished"
             /\ t.emitted[q].path = t.file_paths[2]

\* the number of events of a log with signal sig that carry path
count_events(log, sig, path) ==
  Cardinality({p \in 1..Len(log) : log[p].sig = sig /\ log[p].path = path})

\* the worker has begun file i of its snapshot
FileBegun(t, i) == \E p \in 1..Len(t.emitted) : NamesFile(t, p, i)

\* the failures of lines 171-245: the recognition raised, the output could not
\* be written
FileFailure(e) == e.sig = "error" /\ e.tag \in {"raised", "write"}

\* C14: a file whose processing failed gets one error and no finished, and
\* the worker goes on to the next file unless it was told to stop; no file
\* gets more than one of finished and error, and every file the worker has
\* begun and is no longer working on has exactly one
C14_FailureConfined ==
  \A w \in Workers :
    LET t == threads[w]
        log == t.emitted
        n == Len(t.file_paths)
    IN  /\ \A i \in 1..n :
             LET path == t.file_paths[i]
                 terminal == count_events(log, "finished", path)
                               + count_events(log, "error", path)
             IN  /\ terminal <= 1
                 /\ (FileBegun(t, i) /\ ~(t.pc = "transcribing" /\ t.index = i))
                      => terminal = 1
        /\ \A p \in 1..Len(log) :
             FileFailure(log[p]) =>
               LET i == EventFile(t, log[p])
               IN  /\ i \in 1..n
                   /\ count_events(log, "error", log[p].path) = 1
                   /\ count_events(log, "finished", log[p].path) = 0
                   /\ (i < n /\ ~t.should_stop) => FileBegun(t, i + 1)

\* C14 witness: the first file of two failed (the recognition raised or the
\* output could not be written) and the second was finished
C14_Witness ==
  \E w \in Workers :
    LET t == threads[w]
    IN  /\ Len(t.file_paths) = 2
        /\ \E p, q \in 1..Len(t.emitted) :
             /\ FileFailure(t.emitted[p])
             /\ t.emitted[p].path = t.file_paths[1]
             /\ t.emitted[q].sig = "finished"
             /\ t.emitted[q].path = t.file_paths[2]

\* the events after which lines 213-216 have run for a file: the recognition
\* returned, whether or not the output was then written
Timed(e) == e.sig = "finished" \/ (e.sig = "error" /\ e.tag = "write")

\* the audio lengths lines 213-216 have added up over the first k events
RECURSIVE timed_audio(_, _)
timed_audio(log, k) ==
  IF k = 0 THEN 0
  ELSE timed_audio(log, k - 1) + (IF Timed(log[k]) THEN audio_duration(log[k].path) ELSE 0)

\* the number of recognition calls among the first k events whose file has a
\* known, positive length
RECURSIVE timed_calls(_, _)
timed_calls(log, k) ==
  IF k = 0 THEN 0
  ELSE timed_calls(log, k - 1)
         + (IF Timed(log[k]) /\ audio_duration(log[k].path) > 0 THEN 1 ELSE 0)

\* C15: a run emits benchmark_result at most once, as its last event, and a
\* run that went through its loop emits it exactly when both totals are
\* positive; the value is total_processing_time * 60 / total_audio_duration
\* (15 for 30 s spent on 120 s of audio); the totals are those of the files
\* whose recognition returned and whose length is positive, a file of length
\* 0 adding to neither
C15_BenchmarkResult ==
  \A w \in Workers :
    LET t == threads[w]
        log == t.emitted
        results == {p \in 1..Len(log) : log[p].sig = "benchmark_result"}
    IN  /\ Cardinality(results) <= 1
        /\ \A p \in results :
             /\ p = Len(log)
             /\ t.pc = "done"
             /\ log[p].n * t.total_audio_duration = t.total_processing_time * 60
        /\ (t.pc = "done" /\ t.model # NoModel) =>
             (results # {} <=> (t.total_audio_duration > 0 /\ t.total_processing_time > 0))
        /\ (t.pc = "done" /\ t.model = NoModel) => results = {}
        /\ t.total_audio_duration = timed_audio(log, Len(log))
        /\ t.total_processing_time = timed_calls(log, Len(log)) * SomeProcessingTime

\* C15 witness: a run over a file of 120 s and a file of length 0, both
\* finished, has reported 15 seconds per minute
C15_Witness ==
  \E w \in Workers :
    LET t == threads[w]
        log == t.emitted
    IN  /\ t.pc = "done"
        /\ \E p, q \in 1..Len(log) :
             /\ log[p].sig = "finished" /\ audio_duration(log[p].path) = 0
             /\ log[q].sig = "finished" /\ audio_duration(log[q].path) = 120
        /\ t.total_audio_duration = 120
        /\ t.total_processing_time = 30
        /\ log[Len(log)].sig = "benchmark_result"
        /\ log[Len(log)].n = 15

\* C15 witness of the other side: a run that finished a file, and none of
\* positive length, has returned without a benchmark result
C15_WitnessNone ==
  \E w \in Workers :
    LET t == threads[w]
        log == t.emitted
    IN  /\ t.pc = "done"
        /\ \E p \in 1..Len(log) : log[p].sig = "finished"
        /\ t.total_audio_duration = 0
        /\ \A p \in 1..Len(log) : log[p].sig # "benchmark_result"

(***************************************************************************)
(* Claims on the audio probe                                               *)
(***************************************************************************)
\* C16 (as claimed): once is_available has returned False, no ffprobe
\* process is started any more, by the availability check or by a duration
\* query, every get_audio_duration call begun since has returned 0, and the
\* cached answer stays False
C16_UnavailableSticks ==
  /\ reported => _is_available = "False"
  /\ \A p \in 1..Len(probe_log) :
       probe_log[p].late =>
         /\ probe_log[p].kind # "run"
         /\ probe_log[p].value = 0

(***************************************************************************)
(* Claims on the formatters                                                *)
(***************************************************************************)
\* the number a string of decimal digits stands for
RECURSIVE number(_)
number(chars) ==
  IF chars = <<>> THEN 0
  ELSE number(SubSeq(chars, 1, Len(chars) - 1)) * 10
         + (CHOOSE d \in 0..9 : DigitChars[d + 1] = chars[Len(chars)])

\* the four fields of HH:MM:SS,mmm read back as numbers
Fields(stamp) ==
  [hours |-> number(SubSeq(stamp, 1, 2)),
   minutes |-> number(SubSeq(stamp, 4, 5)),
   seconds |-> number(SubSeq(stamp, 7, 8)),
   milliseconds |-> number(SubSeq(stamp, 10, 12))]

\* C17 (as claimed): the timestamp of a non-negative time has the shape
\* HH:MM:SS,mmm with minutes and seconds in 0..59 and milliseconds in 0..999,
\* and hours*3600 + minutes*60 + seconds + milliseconds/1000 is the time that
\* was formatted, for times of 24 hours and more too
C17_RoundTrip ==
  "format_timestamp" \in fmt_out.done =>
    LET stamp == fmt_out.stamp
        f == Fields(stamp)
    IN  /\ Len(stamp) = 12
        /\ stamp[3] = ":" /\ stamp[6] = ":" /\ stamp[9] = ","
        /\ f.minutes \in 0..59
        /\ f.seconds \in 0..59
        /\ f.milliseconds \in 0..999
        /\ (f.hours * 3600 + f.minutes * 60 + f.seconds) * 1000 + f.milliseconds
             = fmt_in.seconds

\* the lines of a text that ends each of its lines with "\n": line k is what
\* stands between the newlines k - 1 and k
lines_of(chars) ==
  LET newlines == {p \in 1..Len(chars) : chars[p] = "\n"}
      \* the position of newline k, 0 for k = 0
      at(k) == IF k = 0 THEN 0
               ELSE CHOOSE p \in newlines : Cardinality({q \in newlines : q <= p}) = k
  IN  [k \in 1..Cardinality(newlines) |-> SubSeq(chars, at(k - 1) + 1, at(k) - 1)]

\* block i of an SRT text: the index, the two timestamps, the trimmed text, a
\* blank line
SrtBlock(segments, i) ==
  decimal(i) \o <<"\n">>
    \o format_timestamp(segments[i].start) \o <<" ", "-", "-", ">", " ">>
    \o format_timestamp(segments[i].end) \o <<"\n">>
    \o strip(segments[i].text) \o <<"\n", "\n">>

\* C18: create_srt returns the blocks of its n segments one after the other
\* in the order of the segments, and nothing else: the empty string for no
\* segment; read line by line, block i is the line i, the line
\* "<start> --> <end>", the trimmed text and an empty line
C18_SrtBlocks ==
  "create_srt" \in fmt_out.done =>
    LET segments == fmt_in.segments
        n == Len(segments)
        srt == fmt_out.srt
        lines == lines_of(srt)
    IN  /\ srt = FlattenSeq([i \in 1..n |-> SrtBlock(segments, i)])
        /\ n = 0 => srt = <<>>
        /\ Len(lines) = 4 * n
        /\ n > 0 => srt[Len(srt)] = "\n"
        /\ \A i \in 1..n :
             /\ number(lines[4 * i - 3]) = i
             /\ lines[4 * i - 2] = format_timestamp(segments[i].start)
                                     \o <<" ", "-", "-", ">", " ">>
                                     \o format_timestamp(segments[i].end)
             /\ lines[4 * i - 1] = strip(segments[i].text)
             /\ lines[4 * i] = <<>>
             /\ lines[4 * i - 1] = <<>> \/
                  (Head(lines[4 * i - 1]) \notin Whitespace
                     /\ lines[4 * i - 1][Len(lines[4 * i - 1])] \notin Whitespace)

\* C18 witness: create_srt has returned two blocks, the text of the first
\* segment trimmed on both sides
C18_Witness ==
  /\ "create_srt" \in fmt_out.done
  /\ Len(fmt_in.segments) = 2
  /\ fmt_in.segments[1].text = <<"\t", "a", " ", "b", " ", "\n">>
  /\ fmt_in.segments[2].text = <<"H", "e", "l", "l", "o">>
  /\ Len(lines_of(fmt_out.srt)) = 8

\* where text i begins in the joined text, less one
RECURSIVE txt_offset(_, _)
txt_offset(segments, i) ==
  IF i = 1 THEN 0
  ELSE txt_offset(segments, i - 1) + Len(strip(segments[i - 1].text)) + 1

\* C19: create_txt returns the trimmed texts of its n segments in their order
\* with one "\n" between two neighbours, n - 1 in all, and nothing before the
\* first text, after the last one or anywhere else: no index, no timestamp,
\* no newline after the last text ('Hello', 'World' give 'Hello\nWorld')
C19_TxtJoined ==
  "create_txt" \in fmt_out.done =>
    LET segments == fmt_in.segments
        n == Len(segments)
        txt == fmt_out.txt
    IN  /\ n = 0 => txt = <<>>
        /\ n > 0 => Len(txt) = txt_offset(segments, n) + Len(strip(segments[n].text))
        /\ \A i \in 1..n :
             LET text == strip(segments[i].text)
                 at == txt_offset(segments, i)
             IN  /\ SubSeq(txt, at + 1, at + Len(text)) = text
                 /\ i > 1 => txt[at] = "\n"
                 /\ text = <<>> \/ (Head(text) \notin Whitespace
                                      /\ text[Len(text)] \notin Whitespace)
        /\ (n = 2 /\ segments[1].text = <<"H", "e", "l", "l", "o">>
                  /\ segments[2].text = <<" ", "W", "o", "r", "l", "d">>)
             => txt = <<"H", "e", "l", "l", "o", "\n", "W", "o", "r", "l", "d">>

\* C19 witness: create_txt has joined 'Hello' and ' World'
C19_Witness ==
  /\ "create_txt" \in fmt_out.done
  /\ Len(fmt_in.segments) = 2
  /\ fmt_in.segments[1].text = <<"H", "e", "l", "l", "o">>
  /\ fmt_in.segments[2].text = <<" ", "W", "o", "r", "l", "d">>
  /\ Len(fmt_out.txt) = 11

(***************************************************************************)
(* Claims on closing the window                                            *)
(***************************************************************************)
EmptyCache == [k \in Keys |-> NoModel]

Cleared ==
  /\ file_queue = <<>>
  /\ file_list = <<>>
  /\ processed_files = <<>>
  /\ progress_bar = 0
  /\ overall_progress_bar = 0
  /\ status_label = ""
  /\ ~performance_label
  /\ ~start_enabled
  /\ file_counter_label = [total |-> 0, processed |-> 0, errors |-> 0]

\* C21 (as claimed): the clear button can be pressed in every state, while
\* a worker is inside run() too
C21_ClearAlwaysPermitted == InRun # {} => controls_enabled

\* C21 (amended): the clear button is disabled from start_processing until
\* the completion sequence (while stop is enabled) and can be pressed
\* whenever the controls are enabled; pressing it leaves the queue, the list
\* and the processed-files record empty, both progress bars at 0, the status
\* text empty, the performance text hidden and the start button disabled
C21_ClearWhenEnabled ==
  /\ [](stop_enabled => ~controls_enabled)
  /\ [](controls_enabled => ENABLED clear_file_list)
  /\ [][DisplayClear => Cleared']_vars

\* C21 witness: the queue has been cleared after a batch that left a
\* processed file, a progress of 100 and the performance text behind
C21_Witness ==
  /\ Cleared
  /\ threads # <<>>
  /\ \E w \in 1..Len(threads) : threads[w] = Collected
  /\ controls_enabled

\* the events of kind sig in the history of a benchmark worker
bench_events(t, sig) == SelectSeq(t.emitted, LAMBDA e : e.sig = sig)

\* the progress values of a benchmark worker, in the order of emission
milestones(t) ==
  LET ps == bench_events(t, "bench_progress") IN [i \in 1..Len(ps) |-> ps[i].n]

\* what ends a run: its result or its error
Outcomes(t) == SelectSeq(t.emitted, LAMBDA e : e.sig \in {"result", "bench_error"})

\* C22: a failure inside one engine's branch of BenchmarkThread.run becomes
\* the failure line of that engine alone and the other branch still runs;
\* a run emits nothing after its outcome, a run that has returned has
\* emitted exactly one of result and error as its last event, and no run
\* with a failure inside a branch ends with error.
C22_BranchFailureConfined ==
  \A b \in 1..Len(benchmark_threads) :
    LET t == benchmark_threads[b]
        out == Outcomes(t)
    IN  /\ Len(out) = (IF t.pc = "done" THEN 1 ELSE 0)
        /\ t.pc = "done" => t.emitted[Len(t.emitted)] = out[1]
        /\ t.failed # {} => bench_events(t, "bench_error") = <<>>
        /\ t.pc = "done" /\ t.failed # {} =>
             /\ out[1].sig = "result"
             /\ (out[1].n = 0) <=> ("faster-whisper" \in t.failed)
             /\ (out[1].m = 0) <=> ("whisper" \in t.failed)
             /\ (out[1].m = 2) <=> ~whisper_installed
             /\ whisper_installed => 75 \in {milestones(t)[i] : i \in 1..Len(milestones(t))}

\* the optimized engine has failed, the reference engine has been measured
\* after it and the dialog has shown the result
C22_Witness ==
  /\ whisper_installed
  /\ dialog.results_text = <<0, 1>>
  /\ \E b \in 1..Len(benchmark_threads) :
       /\ benchmark_threads[b].pc = "done"
       /\ benchmark_threads[b].failed = {"faster-whisper"}

\* C23: every benchmark run that ends with a result has emitted the progress
\* milestones 25, 50, 75, 100 in exactly that order before the result,
\* whether or not an engine's branch fails and whether or not the reference
\* backend is installed.
C23_Milestones ==
  \A b \in 1..Len(benchmark_threads) :
    LET t == benchmark_threads[b]
    IN  bench_events(t, "result") # <<>> =>
          /\ milestones(t) = <<25, 50, 75, 100>>
          /\ t.emitted[Len(t.emitted)].sig = "result"

\* C23 with the reference backend installed: the four milestones in order
C23_MilestonesInstalled == whisper_installed => C23_Milestones

\* the benchmark workers that were started and whose run() has not returned
BenchRunning == {b \in 1..Len(benchmark_threads) : benchmark_threads[b].pc # "done"}

\* C24: at most one BenchmarkThread is running at any time: whatever the
\* sequence of opening the dialog, choosing a file, pressing run, closing
\* and reopening, no benchmark worker is started while an earlier one's
\* run() has not returned.
C24_OneBenchmark == Cardinality(BenchRunning) <= 1

\* C24 inside one dialog: the workers started from the dialog that is open
\* never overlap
C24_OnePerDialog ==
  Cardinality({b \in BenchRunning : benchmark_threads[b].dialog = dialog.id}) <= 1

\* the last event of the stretch of a log that begins at p and ends before
\* the next event that opens another file or closes the run
stretch_end(log, p) ==
  LET later == {q \in (p + 1)..Len(log) :
                  log[q].sig \in {"current_file", "file_not_found", "benchmark_result"}}
  IN  IF later = {} THEN Len(log)
      ELSE (CHOOSE q \in later : \A r \in later : q <= r) - 1

\* what a file that is processed to its end makes worker w emit
file_events(t, w, i) ==
  LET file_path == t.file_paths[i]
  IN  <<SigCurrentFile(w, basename(file_path)),
        SigOverall(w, i, Len(t.file_paths)),
        SigStatus(w, "transcribing"),
        SigProgress(w, 30),
        SigProgress(w, 80),
        SigProgress(w, 100),
        SigFinished(w, file_path, output_path(file_path, t.output_format))>>

\* C25: for every file that exists when the worker reaches it the events
\* come in the fixed order current_file, overall_progress(index+1, total),
\* status 'transcribing', progress 30, progress 80, progress 100, finished;
\* a failing file emits a proper prefix of that sequence followed by its
\* error (the prefix ends with progress 30 or 80); a file in flight has
\* emitted the prefix up to progress 30; the progress values of one file
\* never decrease.
C25_FileEventOrder ==
  \A w \in Workers :
    LET t == threads[w]
        log == t.emitted
    IN  \A p \in 1..Len(log) :
          log[p].sig = "current_file" =>
            /\ p < Len(log)
            /\ log[p + 1].sig = "overall_progress"
            /\ log[p + 1].n \in 1..Len(t.file_paths)
            /\ LET i == log[p + 1].n
                   all == file_events(t, w, i)
                   seg == SubSeq(log, p, stretch_end(log, p))
                   k == Len(seg)
               IN  /\ \/ seg = all
                      \/ /\ k \in {5, 6}
                         /\ SubSeq(seg, 1, k - 1) = SubSeq(all, 1, k - 1)
                         /\ seg[k].sig = "error"
                         /\ seg[k].path = t.file_paths[i]
                      \/ /\ seg = SubSeq(all, 1, 4)
                         /\ p + 3 = Len(log)
                         /\ t.pc = "transcribing"
                         /\ t.index = i
                   /\ \A a, b \in 1..k :
                        (a < b /\ seg[a].sig = "progress" /\ seg[b].sig = "progress")
                          => seg[a].n <= seg[b].n

\* C25 witness: a worker processed one file to its end and the write of
\* another failed after progress 80
C25_Witness ==
  \E w \in Workers :
    LET log == threads[w].emitted
    IN  /\ \E p \in 1..Len(log) : log[p].sig = "finished"
        /\ \E p \in 2..Len(log) :
             /\ log[p].sig = "error"
             /\ log[p].tag = "write"
             /\ log[p - 1] = SigProgress(w, 80)

\* the UI is idle: controls and intake enabled, stop disabled, no worker
\* referred to
Idle ==
  /\ transcription_thread = 0
  /\ controls_enabled
  /\ acceptDrops
  /\ ~stop_enabled

\* C26: every started run eventually returns the UI to idle: after
\* start_processing the completion sequence eventually runs, with the
\* controls and the intake enabled again, stop disabled and the worker
\* reference cleared, for full runs, stopped runs, load failures and
\* repeated runs alike.
C26_EventuallyIdle == (transcription_thread # 0) ~> Idle

\* C26 as a state predicate: once run() has returned and every event and timer
\* of the run has been handled, the UI is idle
C26_IdleAtRunEnd ==
  \A w \in 1..Len(threads) : (RunEnd(w) /\ timers = 0) => Idle

\* C26 for the runs that loaded their model and were never stopped
C26_FullRunsIdle ==
  \A w \in 1..Len(threads) :
    (RunEnd(w) /\ timers = 0 /\ ~threads[w].stopped /\ threads[w].model # NoModel) => Idle

\* the rows of the list shown as being processed
Processing == {i \in 1..Len(file_list) : file_list[i].status = "processing"}

\* C27 (first part): at most one queue entry has status processing
C27_AtMostOneProcessing == Cardinality(Processing) <= 1

\* C27: at most one queue entry has status processing, and it is the entry
\* whose full path the worker is transcribing: with every event handled and
\* the widget's worker inside a recognition, the rows with status processing
\* are the rows of that file's path and of no other, same basename or not.
C27_ProcessingIsCurrent ==
  /\ C27_AtMostOneProcessing
  /\ (/\ transcription_thread # 0
      /\ evq = <<>>
      /\ threads[transcription_thread].pc = "transcribing")
       => LET t == threads[transcription_thread]
          IN  Processing = rows_of_path(file_list, t.file_paths[t.index])

\* C28 (first part): processed + errors never exceeds the number of queued
\* files, in the numbers update_file_counter computes and in those it last
\* wrote to the label
C28_CountersBounded ==
  LET now == update_file_counter(file_queue, file_list, processed_files)
  IN  /\ now.processed + now.errors <= now.total
      /\ file_counter_label.processed + file_counter_label.errors
           <= file_counter_label.total

\* C28: the counters of update_file_counter stay consistent after any
\* sequence of drops, runs (repeated ones without clearing included) and
\* clears: processed + errors never exceeds the total of queued files, and
\* processed, the length of processed_files, equals the number of entries
\* whose status is completed.
C28_CountersConsistent ==
  /\ C28_CountersBounded
  /\ Len(processed_files) = count_status(file_list, "completed")

\* the list shows the queue, row for row
ListMirrorsQueue ==
  /\ Len(file_list) = Len(file_queue)
  /\ \A i \in 1..Len(file_queue) : file_list[i].file_path = file_queue[i]

Failed(call) == call.key # NoKey /\ call.model = NoModel

\* call j is the first request for its key after call i
NextRequest(i, j) ==
  /\ i < j
  /\ calls[j].key # NoKey
  /\ \A m \in (i + 1)..(j - 1) : calls[m].key # calls[j].key

\* C30: a get_model call that fails (the load raises, or the reference
\* backend is not installed) leaves MODEL_CACHE as it was: no entry is
\* stored for the key and the entries of other keys are kept, and the next
\* request for the key does not come from the cache; clear_cache removes
\* every entry, and the next request for any key after it loads anew.
C30_FailureAndClear ==
  /\ [][(Len(calls') = Len(calls) + 1 /\ Failed(calls'[Len(calls')]))
          => /\ MODEL_CACHE' = MODEL_CACHE
             /\ MODEL_CACHE'[calls'[Len(calls')].key] = NoModel]_vars
  /\ [][ClearCache => MODEL_CACHE' = EmptyCache]_vars
  /\ [](\A i, j \in 1..Len(calls) :
          (/\ NextRequest(i, j)
           /\ \/ calls[i] = ClearCall
              \/ Failed(calls[i]) /\ calls[i].key = calls[j].key)
            => /\ ~calls[j].hit
               /\ \A m \in 1..(j - 1) : calls[j].model # NoModel => calls[m].model # calls[j].model)

\* C30 witness: a load failed while another key was cached, the key was
\* then loaded, the cache was cleared and the key was loaded anew
C30_Witness ==
  /\ Len(calls) = 4
  /\ calls[1].model # NoModel
  /\ Failed(calls[2])
  /\ calls[2].key # calls[1].key
  /\ calls[3] = ClearCall
  /\ calls[4].key = calls[1].key
  /\ calls[4].model # NoModel
  /\ ~calls[4].hit

====
